---- MODULE Spec2Model ----
(***************************************************************************)
(* Henbrook daily menu generator (generate_menus.py, app.py, api/main.py). *)
(*                                                                         *)
(* Text is modelled at character level: a Python str is a sequence of      *)
(* one-character strings.  Four characters outside ASCII are written by    *)
(* name: "rsquo" (right single quote U+2019), "mdash" (U+2014), "ndash"    *)
(* (U+2013) and "bullet" (U+2022).  Regular expressions of the source are  *)
(* written out as the matching procedure they denote.                      *)
(***************************************************************************)
EXTENDS Naturals, Integers, Sequences, FiniteSets, TLC

\* ---------------------------------------------------------------------------
\* Characters and the str methods the source uses
\* ---------------------------------------------------------------------------

UpperCase ==
    <<"A","B","C","D","E","F","G","H","I","J","K","L","M",
      "N","O","P","Q","R","S","T","U","V","W","X","Y","Z">>

LowerCase ==
    <<"a","b","c","d","e","f","g","h","i","j","k","l","m",
      "n","o","p","q","r","s","t","u","v","w","x","y","z">>

Digits == <<"0","1","2","3","4","5","6","7","8","9">>

Range(f) == {f[i] : i \in DOMAIN f}

UpperSet == Range(UpperCase)
LowerSet == Range(LowerCase)
DigitSet == Range(Digits)

\* str.strip() with no argument and the regex class \s
Whitespace == {" ", "\t", "\n", "\r"}

LowerOf == [c \in UpperSet |-> LowerCase[CHOOSE i \in 1..26 : UpperCase[i] = c]]
UpperOf == [c \in LowerSet |-> UpperCase[CHOOSE i \in 1..26 : LowerCase[i] = c]]

isalpha(c) == c \in UpperSet \cup LowerSet
isdigit(c) == c \in DigitSet
\* the regex class \w (word character), which decides \b
isword(c)  == isalpha(c) \/ isdigit(c) \/ c = "_"

lower_char(c) == IF c \in UpperSet THEN LowerOf[c] ELSE c
upper_char(c) == IF c \in LowerSet THEN UpperOf[c] ELSE c

\* str.lower()
lower(s) == [i \in 1..Len(s) |-> lower_char(s[i])]

Min(S) == CHOOSE m \in S : \A n \in S : m <= n
Max(S) == CHOOSE m \in S : \A n \in S : m >= n

\* s[i:] and s[:i-1] with 1-based i
From(s, i) == SubSeq(s, i, Len(s))
Upto(s, i) == SubSeq(s, 1, i)

\* does w occur in s at position i
MatchAt(s, i, w) ==
    /\ i >= 1
    /\ i + Len(w) - 1 <= Len(s)
    /\ SubSeq(s, i, i + Len(w) - 1) = w

\* `w in s`
contains(s, w) == \E i \in 1..(Len(s) + 1) : MatchAt(s, i, w)

RECURSIVE lstrip_chars(_, _)
lstrip_chars(s, cs) ==
    IF s # <<>> /\ Head(s) \in cs THEN lstrip_chars(Tail(s), cs) ELSE s

RECURSIVE rstrip_chars(_, _)
rstrip_chars(s, cs) ==
    IF s # <<>> /\ s[Len(s)] \in cs
    THEN rstrip_chars(SubSeq(s, 1, Len(s) - 1), cs)
    ELSE s

\* str.strip(chars), str.rstrip(chars), str.strip()
strip_chars(s, cs) == rstrip_chars(lstrip_chars(s, cs), cs)
strip(s) == strip_chars(s, Whitespace)

\* str.replace(a, b) for one-character a and b
replace_char(s, a, b) == [i \in 1..Len(s) |-> IF s[i] = a THEN b ELSE s[i]]

\* Leftmost position k >= i of s where a match of length MatchLen(s, k) > 0
\* starts, 0 when there is none: where re.split and re.sub find the next match
NextMatch(s, i, MatchLen(_, _)) ==
    LET hits == {k \in i..Len(s) : MatchLen(s, k) > 0}
    IN  IF hits = {} THEN 0 ELSE Min(hits)

\* str.replace(a, b) for a string a of any length >= 1, from position i on
RECURSIVE replace_from(_, _, _, _)
replace_from(s, i, a, b) ==
    LET k == NextMatch(s, i, LAMBDA t, j : IF MatchAt(t, j, a) THEN Len(a) ELSE 0)
    IN  IF k = 0 THEN From(s, i)
        ELSE SubSeq(s, i, k - 1) \o b \o replace_from(s, k + Len(a), a, b)

replace_str(s, a, b) == replace_from(s, 1, a, b)

\* str.split(sep) for a one-character sep: always at least one part
RECURSIVE split(_, _)
split(s, sep) ==
    IF \E i \in 1..Len(s) : s[i] = sep
    THEN LET i == Min({k \in 1..Len(s) : s[k] = sep})
         IN  <<Upto(s, i - 1)>> \o split(From(s, i + 1), sep)
    ELSE <<s>>

\* sep.join(parts)
RECURSIVE join(_, _)
join(parts, sep) ==
    IF parts = <<>> THEN <<>>
    ELSE IF Len(parts) = 1 THEN parts[1]
    ELSE parts[1] \o sep \o join(Tail(parts), sep)

\* ---------------------------------------------------------------------------
\* Values that are either a str or a docxtpl RichText
\* ---------------------------------------------------------------------------

\* A field that the builders may fill with a RichText is a record: rich says
\* which of the two it is, text is the str or the text of the highlighted run.
Plain(s) == [rich |-> FALSE, text |-> s]

\* RunOpen = "<w:r><w:rPr><w:highlight w:val="yellow"/></w:rPr><w:t xml:space="preserve">"
RunOpen ==
    <<"<","w",":","r",">","<","w",":","r","P","r",">","<","w",":","h","i","g","h","l","i","g",
      "h","t"," ","w",":","v","a","l","=","\"","y","e","l","l","o","w","\"","/",">","<","/","w",
      ":","r","P","r",">","<","w",":","t"," ","x","m","l",":","s","p","a","c","e","=","\"","p",
      "r","e","s","e","r","v","e","\"",">">>

\* RunClose = "</w:t></w:r>"
RunClose ==
    <<"<","/","w",":","t",">","<","/","w",":","r",">">>

\* str(v): a RichText prints as the XML of its run, a str as itself.  The text
\* values of the model hold none of the characters XML escaping rewrites.
str_(v) == IF v.rich THEN RunOpen \o v.text \o RunClose ELSE v.text

\* _yellow(text): rt.add(text or "", highlight="yellow"); adding a RichText to
\* a RichText appends its XML unchanged.
yellow(v) == IF v.rich THEN v ELSE [rich |-> TRUE, text |-> v.text]

\* ---------------------------------------------------------------------------
\* Small utilities: formatting, text, highlighting
\* ---------------------------------------------------------------------------

\* w_chef = "chef"
w_chef ==
    <<"c","h","e","f">>
\* w_choice = "choice"
w_choice ==
    <<"c","h","o","i","c","e">>
\* w_soup = "soup"
w_soup ==
    <<"s","o","u","p">>

\* _is_chefs_choice_soup(title), title a str
is_chefs_choice_soup(title) ==
    LET s == replace_char(lower(title), "rsquo", "'")
    IN  contains(s, w_chef) /\ contains(s, w_choice) /\ contains(s, w_soup)

\* sentence_case(s)
sentence_case(s0) ==
    LET s == strip(s0)
        alphas == {i \in 1..Len(s) : isalpha(s[i])}
    IN  IF s = <<>> \/ alphas = {} THEN s
        ELSE LET a == Min(alphas)
             IN  Upto(s, a - 1) \o <<upper_char(s[a])>> \o lower(From(s, a + 1))

\* tag_Ve = "(Ve)"
tag_Ve ==
    <<"(","V","e",")">>
\* tag_V = "(V)"
tag_V ==
    <<"(","V",")">>

\* the two alternatives of \((Ve|V)\): the match is case-sensitive
SuffixTags == {tag_Ve, tag_V}

\* strip_suffixes(s): re.sub(r"\s*\((Ve|V)\)\s*$", "", s or "").strip()
\* The pattern matches when a tag is the last thing of s before optional
\* whitespace; the match runs from the whitespace before the tag to the end.
strip_suffixes(s) ==
    LET t   == rstrip_chars(s, Whitespace)
        hit == {g \in SuffixTags :
                   Len(t) >= Len(g) /\ From(t, Len(t) - Len(g) + 1) = g}
    IN  IF hit = {} THEN strip(s)
        ELSE LET g == CHOOSE g \in hit : TRUE
             IN  strip(rstrip_chars(Upto(t, Len(t) - Len(g)), Whitespace))

\* add_suffix(s, suffix): f"{strip_suffixes(s)} {suffix}".strip()
add_suffix(s, suffix) == strip(strip_suffixes(s) \o <<" ">> \o suffix)

\* Length of the separator that re.split(r",|/|\t+|\s{2,}|\n+") finds at
\* position i of s (0: none); the alternatives are tried in this order.
RECURSIVE RunLen(_, _, _)
RunLen(s, i, cs) ==
    IF i <= Len(s) /\ s[i] \in cs THEN 1 + RunLen(s, i + 1, cs) ELSE 0

SidesSepLen(s, i) ==
    IF s[i] \in {",", "/"} THEN 1
    ELSE IF s[i] = "\t" THEN RunLen(s, i, {"\t"})
    ELSE IF RunLen(s, i, Whitespace) >= 2 THEN RunLen(s, i, Whitespace)
    ELSE IF s[i] = "\n" THEN RunLen(s, i, {"\n"})
    ELSE 0

\* re.split(r",|/|\t+|\s{2,}|\n+", s), from position i on
RECURSIVE SidesSplit(_, _)
SidesSplit(s, i) ==
    LET k == NextMatch(s, i, SidesSepLen)
    IN  IF k = 0 THEN <<From(s, i)>>
        ELSE <<SubSeq(s, i, k - 1)>> \o SidesSplit(s, k + SidesSepLen(s, k))

\* the loop of normalise_sides: first occurrence of each lower-cased item
RECURSIVE Dedup(_, _)
Dedup(parts, seen) ==
    IF parts = <<>> THEN <<>>
    ELSE IF lower(Head(parts)) \in seen THEN Dedup(Tail(parts), seen)
    ELSE <<Head(parts)>> \o Dedup(Tail(parts), seen \cup {lower(Head(parts))})

SidesTrim(p) ==
    strip(rstrip_chars(strip_chars(p, {" ", "-", "ndash", "bullet"}), {"."}))

\* normalise_sides(text)
normalise_sides(text) ==
    IF text = <<>> THEN <<>>
    ELSE LET raw   == replace_char(text, "\r", "\n")
             split_ == SidesSplit(raw, 1)
             kept  == SelectSeq(split_, LAMBDA p : p # <<>> /\ strip(p) # <<>>)
             parts == [k \in 1..Len(kept) |-> SidesTrim(kept[k])]
         IN  join(Dedup(parts, {}), <<",", " ">>)

\* ensure_len(lst, n, filler): a new list (the items are the same objects)
ensure_len(lst, n, filler) ==
    [k \in 1..n |-> IF k <= Len(lst) THEN lst[k] ELSE filler]

\* ---------------------------------------------------------------------------
\* Dates: datetime.strptime, date.isoformat, date.fromisoformat, strftime
\* ---------------------------------------------------------------------------

\* value of a string of digits
RECURSIVE DigitsVal(_)
DigitsVal(p) ==
    IF p = <<>> THEN 0
    ELSE 10 * DigitsVal(Upto(p, Len(p) - 1))
         + (CHOOSE d \in 0..9 : Digits[d + 1] = p[Len(p)])

AllDigits(p) == \A i \in 1..Len(p) : isdigit(p[i])

\* %d: 3[0-1] | [1-2]\d | 0[1-9] | [1-9] | " "[1-9]; 0 when p is none of
\* them
DayField(p) ==
    IF Len(p) = 2 /\ p[1] = " " /\ isdigit(p[2]) /\ p[2] # "0"
    THEN DigitsVal(Tail(p))
    ELSE IF Len(p) \in {1, 2} /\ AllDigits(p) /\ DigitsVal(p) \in 1..31
    THEN DigitsVal(p)
    ELSE 0

\* %m: 1[0-2] | 0[1-9] | [1-9]
MonthField(p) ==
    IF Len(p) \in {1, 2} /\ AllDigits(p) /\ DigitsVal(p) \in 1..12
    THEN DigitsVal(p)
    ELSE 0

\* %Y: \d\d\d\d (a year 0 is no date); %y: \d\d, 69..99 are 19xx, 00..68 20xx
YearField4(p) == IF Len(p) = 4 /\ AllDigits(p) THEN DigitsVal(p) ELSE 0
YearField2(p) ==
    IF Len(p) = 2 /\ AllDigits(p)
    THEN (IF DigitsVal(p) >= 69 THEN 1900 ELSE 2000) + DigitsVal(p)
    ELSE 0

IsLeap(y) == (y % 4 = 0 /\ y % 100 # 0) \/ y % 400 = 0

DaysInMonth(y, m) ==
    IF m = 2 THEN (IF IsLeap(y) THEN 29 ELSE 28)
    ELSE IF m \in {4, 6, 9, 11} THEN 30
    ELSE 31

NoDate == [ok |-> FALSE, y |-> 0, m |-> 0, d |-> 0]

MkDate(y, m, d) ==
    IF y >= 1 /\ m >= 1 /\ d >= 1 /\ d <= DaysInMonth(y, m)
    THEN [ok |-> TRUE, y |-> y, m |-> m, d |-> d]
    ELSE NoDate

\* strptime(ds, "%d/%m/%Y"), strptime(ds, "%d/%m/%y"), strptime(ds, "%Y-%m-%d")
strptime_dmY(ds) ==
    LET p == split(ds, "/")
    IN  IF Len(p) = 3 THEN MkDate(YearField4(p[3]), MonthField(p[2]), DayField(p[1]))
        ELSE NoDate

strptime_dmy(ds) ==
    LET p == split(ds, "/")
    IN  IF Len(p) = 3 THEN MkDate(YearField2(p[3]), MonthField(p[2]), DayField(p[1]))
        ELSE NoDate

strptime_Ymd(ds) ==
    LET p == split(ds, "-")
    IN  IF Len(p) = 3 THEN MkDate(YearField4(p[1]), MonthField(p[2]), DayField(p[3]))
        ELSE NoDate

\* n written with at least w digits
RECURSIVE Pad(_, _)
Pad(n, w) ==
    IF w <= 1 /\ n < 10 THEN <<Digits[n + 1]>>
    ELSE Append(Pad(n \div 10, w - 1), Digits[(n % 10) + 1])

\* date.isoformat()
isoformat(d) == Pad(d.y, 4) \o <<"-">> \o Pad(d.m, 2) \o <<"-">> \o Pad(d.d, 2)
\* d.strftime("%d/%m/%Y") and d.strftime("%d-%m-%Y"); the C library does not
\* pad %Y
strftime_dmY(d, sep) == Pad(d.d, 2) \o <<sep>> \o Pad(d.m, 2) \o <<sep>> \o Pad(d.y, 1)

\* date.fromisoformat(s) for the form YYYY-MM-DD; every other text the model
\* feeds it is no ISO 8601 date in any form, and raises ValueError.
fromisoformat(s) ==
    IF /\ Len(s) = 10
       /\ s[5] = "-" /\ s[8] = "-"
       /\ AllDigits(SubSeq(s, 1, 4)) /\ AllDigits(SubSeq(s, 6, 7))
       /\ AllDigits(SubSeq(s, 9, 10))
    THEN MkDate(DigitsVal(SubSeq(s, 1, 4)), DigitsVal(SubSeq(s, 6, 7)),
                DigitsVal(SubSeq(s, 9, 10)))
    ELSE NoDate

\* to_iso(date_str): the three formats in order, else the text as it is
to_iso(date_str) ==
    LET ds == strip(date_str)
    IN  IF strptime_dmY(ds).ok THEN isoformat(strptime_dmY(ds))
        ELSE IF strptime_dmy(ds).ok THEN isoformat(strptime_dmy(ds))
        ELSE IF strptime_Ymd(ds).ok THEN isoformat(strptime_Ymd(ds))
        ELSE ds

\* " – " between weekday and date
DateDash == <<" ", "ndash", " ">>

\* date_label(iso_date, weekday_name)
date_label(iso_date, weekday_name) ==
    IF fromisoformat(iso_date).ok
    THEN weekday_name \o DateDash \o strftime_dmY(fromisoformat(iso_date), "/")
    ELSE weekday_name \o DateDash \o iso_date


\* ---------------------------------------------------------------------------
\* Allergens mapping / parsing
\* ---------------------------------------------------------------------------

\* CANON_COLS: the 16 canonical categories (labels are never taken apart, so
\* a label is one string)
CANON_COLS ==
    <<"Celery", "Cereals with Gluten", "Crustaceans", "Eggs", "Fish", "Lupin",
      "Milk", "Molluscs", "Mustards", "Peanuts", "Nuts from Trees", "Sesame",
      "Soybeans", "Sulphur", "Alcohol", "Pork">>

\* ALLERGEN_NORMALISE: lower-cased token -> canonical category
ALLERGEN_NORMALISE ==
       <<"c","e","l","e","r","y">> :> "Celery"
    @@ <<"g","l","u","t","e","n">> :> "Cereals with Gluten"
    @@ <<"c","e","r","e","a","l","s"," ","w","i","t","h"," ","g","l","u","t","e","n">> :> "Cereals with Gluten"
    @@ <<"c","r","u","s","t","a","c","e","a","n","s">> :> "Crustaceans"
    @@ <<"e","g","g">> :> "Eggs"
    @@ <<"e","g","g","s">> :> "Eggs"
    @@ <<"f","i","s","h">> :> "Fish"
    @@ <<"l","u","p","i","n">> :> "Lupin"
    @@ <<"m","i","l","k">> :> "Milk"
    @@ <<"m","o","l","l","u","s","c">> :> "Molluscs"
    @@ <<"m","o","l","l","u","s","c","s">> :> "Molluscs"
    @@ <<"m","u","s","t","a","r","d">> :> "Mustards"
    @@ <<"m","u","s","t","a","r","d","s">> :> "Mustards"
    @@ <<"p","e","a","n","u","t">> :> "Peanuts"
    @@ <<"p","e","a","n","u","t","s">> :> "Peanuts"
    @@ <<"t","r","e","e"," ","n","u","t","s">> :> "Nuts from Trees"
    @@ <<"n","u","t","s">> :> "Nuts from Trees"
    @@ <<"s","e","s","a","m","e">> :> "Sesame"
    @@ <<"s","o","y","a">> :> "Soybeans"
    @@ <<"s","o","y">> :> "Soybeans"
    @@ <<"s","o","y","b","e","a","n","s">> :> "Soybeans"
    @@ <<"s","u","l","p","h","i","t","e">> :> "Sulphur"
    @@ <<"s","u","l","p","h","i","t","e","s">> :> "Sulphur"
    @@ <<"s","u","l","f","u","r"," ","d","i","o","x","i","d","e">> :> "Sulphur"
    @@ <<"s","u","l","p","h","u","r"," ","d","i","o","x","i","d","e">> :> "Sulphur"
    @@ <<"s","u","l","p","h","u","r">> :> "Sulphur"
    @@ <<"a","l","c","o","h","o","l">> :> "Alcohol"
    @@ <<"p","o","r","k">> :> "Pork"

\* NON_VEGAN_CANON
NON_VEGAN_CANON == {"Milk", "Eggs"}

\* The words of ALLERGEN_TAIL_RE, lower-cased (the pattern ignores case)
TailWords ==
    { 
      <<"m","i","l","k">>,
      <<"e","g","g">>,
      <<"s","o","y","a">>,
      <<"g","l","u","t","e","n">>,
      <<"n","u","t","s">>,
      <<"p","e","a","n","u","t","s">>,
      <<"s","e","s","a","m","e">>,
      <<"m","u","s","t","a","r","d">>,
      <<"c","e","l","e","r","y">>,
      <<"s","u","l","p","h","i","t","e","s">>,
      <<"f","i","s","h">>,
      <<"c","r","u","s","t","a","c","e","a","n","s">>,
      <<"m","o","l","l","u","s","c","s">> }

\* ALLERGEN_TAIL_RE matches at i: \b, one of the words, \b, then .*$ (no
\* line break up to the end of the string, but for one that ends it)
TailMatchAt(s, i) ==
    /\ i = 1 \/ ~isword(s[i - 1])
    /\ \E w \in TailWords :
          /\ MatchAt(lower(s), i, w)
          /\ i + Len(w) > Len(s) \/ ~isword(s[i + Len(w)])
          /\ \A k \in (i + Len(w))..(Len(s) - 1) : s[k] # "\n"

\* ALLERGEN_TAIL_RE.search(s): start of the leftmost match, 0 when none
TailSearch(s) ==
    LET hits == {i \in 1..Len(s) : TailMatchAt(s, i)}
    IN  IF hits = {} THEN 0 ELSE Min(hits)

\* the items of a comma/slash list: raw.split(",") after "/" -> ","
csv_items(csv_text) == split(replace_char(csv_text, "/", ","), ",")

\* variant of _parse_allergen_csv that forgets .lower() on the tokens
parse_allergen_csv_nolower(csv_text) ==
    LET toks == {strip(t) : t \in {x \in Range(csv_items(csv_text)) : strip(x) # <<>>}}
    IN  IF csv_text = <<>> THEN {}
        ELSE {ALLERGEN_NORMALISE[t] : t \in toks \cap DOMAIN ALLERGEN_NORMALISE}

\* variant of _parse_allergen_csv that files a token it does not know under
\* a column of its own
parse_allergen_csv_other_column(csv_text) ==
    LET toks == {lower(strip(t)) : t \in {x \in Range(csv_items(csv_text)) : strip(x) # <<>>}}
    IN  IF csv_text = <<>> THEN {}
        ELSE {IF t \in DOMAIN ALLERGEN_NORMALISE THEN ALLERGEN_NORMALISE[t] ELSE "Other" :
                  t \in toks}

\* _parse_allergen_csv(csv_text)
parse_allergen_csv(csv_text) ==
    LET toks == {lower(strip(t)) : t \in {x \in Range(csv_items(csv_text)) : strip(x) # <<>>}}
    IN  IF csv_text = <<>> THEN {}
        ELSE {ALLERGEN_NORMALISE[t] : t \in toks \cap DOMAIN ALLERGEN_NORMALISE}

\* variant of _scrub_vegan_csv_to_canonset that forgets the subtraction of
\* NON_VEGAN_CANON
scrub_keeps_all(csv_text) ==
    parse_allergen_csv(csv_text)

\* _scrub_vegan_csv_to_canonset(csv_text)
scrub_vegan_csv_to_canonset(csv_text) ==
    {c \in parse_allergen_csv(csv_text) : c \notin NON_VEGAN_CANON}

\* the default of forbidden in _remove_tokens_from_csv
ForbiddenTokens == {<<"m","i","l","k">>, <<"e","g","g">>, <<"e","g","g","s">>}

\* _remove_tokens_from_csv(csv_text)
remove_tokens_from_csv(csv_text) ==
    IF csv_text = <<>> THEN <<>>
    ELSE LET items == csv_items(csv_text)
             filled == SelectSeq(items, LAMBDA t : strip(t) # <<>>)
             toks == [k \in 1..Len(filled) |-> strip(filled[k])]
             keep == SelectSeq(toks, LAMBDA t : lower(t) \notin ForbiddenTokens)
         IN  join(keep, <<",", " ">>)

\* ---------------------------------------------------------------------------
\* Weekly grid parsing
\* ---------------------------------------------------------------------------

\* Length of the match of [ \t]{2,} at position i (0: none)
LongSpaceLen(s, i) ==
    IF RunLen(s, i, {" ", "\t"}) >= 2 THEN RunLen(s, i, {" ", "\t"}) ELSE 0

\* re.sub(r"[ \t]{2,}", "\n", s), from position i on
RECURSIVE LongSpacesFrom(_, _)
LongSpacesFrom(s, i) ==
    LET k == NextMatch(s, i, LongSpaceLen)
    IN  IF k = 0 THEN From(s, i)
        ELSE SubSeq(s, i, k - 1) \o <<"\n">> \o LongSpacesFrom(s, k + LongSpaceLen(s, k))

LongSpacesToNewline(s) == LongSpacesFrom(s, 1)

\* Length of the match of \s*,\s* at position i (0: none)
CommaLen(s, i) ==
    LET n == RunLen(s, i, Whitespace)
    IN  IF i + n <= Len(s) /\ s[i + n] = ","
        THEN n + 1 + RunLen(s, i + n + 1, Whitespace)
        ELSE 0

\* re.sub(r"\s*,\s*", ", ", s), from position i on
RECURSIVE CommaSpacingFrom(_, _)
CommaSpacingFrom(s, i) ==
    LET k == NextMatch(s, i, CommaLen)
    IN  IF k = 0 THEN From(s, i)
        ELSE SubSeq(s, i, k - 1) \o <<",", " ">> \o CommaSpacingFrom(s, k + CommaLen(s, k))

CommaSpacing(s) == CommaSpacingFrom(s, 1)

\* [ln.strip() for ln in body.split("\n") if ln.strip()]
NonEmptyLines(body) ==
    LET ls   == split(body, "\n")
        kept == SelectSeq(ls, LAMBDA ln : strip(ln) # <<>>)
    IN  [k \in 1..Len(kept) |-> strip(kept[k])]

\* variant of parse_title_desc_allergens that does not peel off the allergens
\* tail
parse_title_desc_allergens_no_tail(cell_text) ==
    LET raw   == strip(replace_char(cell_text, "\r", "\n"))
        lines == NonEmptyLines(LongSpacesToNewline(raw))
    IN  [title       |-> IF lines = <<>> THEN <<>> ELSE lines[1],
         description |-> IF Len(lines) > 1 THEN strip(join(Tail(lines), <<" ">>)) ELSE <<>>,
         allergens   |-> <<>>]

\* parse_title_desc_allergens(cell_text)
parse_title_desc_allergens(cell_text) ==
    LET raw   == strip(replace_char(cell_text, "\r", "\n"))
        m     == TailSearch(raw)
        tail  == IF m > 0 THEN strip(From(raw, m)) ELSE <<>>
        body  == IF m > 0 THEN strip(Upto(raw, m - 1)) ELSE raw
        lines == NonEmptyLines(LongSpacesToNewline(body))
        allergens ==
            IF tail = <<>> THEN <<>>
            ELSE strip_chars(replace_str(CommaSpacing(tail), <<" ", ",">>, <<",">>),
                             {" ", ","})
    IN  [title       |-> IF lines = <<>> THEN <<>> ELSE lines[1],
         description |-> IF Len(lines) > 1 THEN strip(join(Tail(lines), <<" ">>)) ELSE <<>>,
         allergens   |-> allergens]


\* ---------------------------------------------------------------------------
\* The weekly document
\* ---------------------------------------------------------------------------

\* The grid convention of parse_week: rows 0..17, column 0 for the row labels
\* and columns 1..7 for the days.
GridRows == 18
GridCols == 8
NumDays == 7

\* day column A of the weekly grid, rows 0..17
Col_A ==
    << <<"M","o","n","d","a","y">>,  \* r0 "Monday"
       <<"1","5","/","0","9","/","2","0","2","5">>,  \* r1 "15/09/2025"
       <<"A","u","t","u","m","n">>,  \* r2 "Autumn"
       <<"T","o","m","a","t","o"," ","s","o","u","p","\n","C","e","l","e","r","y",","," ","M","i","l","k">>,  \* r3 "Tomato soup\nCelery, Milk"
       <<"M","e","l","o","n"," ","(","V",")">>,  \* r4 "Melon (V)"
       <<"L","e","n","t","i","l"," ","c","u","r","r","y"," ","(","V","e",")","\n","M","u","s","t","a","r","d",","," ","M","i","l","k">>,  \* r5 "Lentil curry (Ve)\nMustard, Milk"
       <<"V","e","g"," ","p","i","e"," ","(","V",")","\n","w","i","t","h"," ","m","a","s","h","\n","G","l","u","t","e","n",","," ","E","g","g">>,  \* r6 "Veg pie (V)\nwith mash\nGluten, Egg"
       <<"R","o","a","s","t"," ","b","e","e","f","\n","C","e","l","e","r","y">>,  \* r7 "Roast beef\nCelery"
       <<"P","e","a","s",","," ","C","h","i","p","s"," ","/"," ","p","e","a","s">>,  \* r8 "Peas, Chips / peas"
       <<"A","P","P","L","E"," ","t","a","r","t"," ","(","V",")","\n","M","i","l","k",","," ","F","i","s","h">>,  \* r9 "APPLE tart (V)\nMilk, Fish"
       <<"M","i","l","k">>,  \* r10 "Milk"
       <<>>,  \* r11 ""
       <<"F","i","s","h",","," ","C","e","l","e","r","y">>,  \* r12 "Fish, Celery"
       <<"B","e","a","n"," ","s","t","e","w"," ","(","V","e",")","\n","S","o","y","a">>,  \* r13 "Bean stew (Ve)\nSoya"
       <<"S","a","n","d","w","i","c","h","e","s">>,  \* r14 "Sandwiches"
       <<"F","i","s","h"," ","p","i","e","\n","w","i","t","h"," ","p","e","a","s","\n","F","i","s","h",","," ","M","i","l","k">>,  \* r15 "Fish pie\nwith peas\nFish, Milk"
       <<"r","i","c","e"," ","p","u","d","d","i","n","g","\n","M","i","l","k">>,  \* r16 "rice pudding\nMilk"
       <<"N","u","t","s">> >>  \* r17 "Nuts"

\* day column B of the weekly grid, rows 0..17
Col_B ==
    << <<"T","u","e","s","d","a","y">>,  \* r0 "Tuesday"
       <<"1","6","/","0","9","/","2","5">>,  \* r1 "16/09/25"
       <<>>,  \* r2 ""
       <<"C","h","e","f","rsquo","s"," ","c","h","o","i","c","e"," ","s","o","u","p","\n","M","i","l","k",","," ","C","e","l","e","r","y">>,  \* r3 "Chef’s choice soup\nMilk, Celery"
       <<>>,  \* r4 ""
       <<>>,  \* r5 ""
       <<"O","m","e","l","e","t","t","e","\n","E","g","g","s">>,  \* r6 "Omelette\nEggs"
       <<"P","o","r","k"," ","c","h","o","p","\n","M","u","s","t","a","r","d">>,  \* r7 "Pork chop\nMustard"
       <<>>,  \* r8 ""
       <<>>,  \* r9 ""
       <<>>,  \* r10 ""
       <<>>,  \* r11 ""
       <<>>,  \* r12 ""
       <<>>,  \* r13 ""
       <<>>,  \* r14 ""
       <<"B","e","e","f"," ","s","t","e","w"," ","/"," ","V","e","g"," ","s","t","e","w"," ","(","V","e",")","\n","C","e","l","e","r","y">>,  \* r15 "Beef stew / Veg stew (Ve)\nCelery"
       <<>>,  \* r16 ""
       <<>> >>  \* r17 ""

\* day column C of the weekly grid, rows 0..17
Col_C ==
    << <<>>,  \* r0 ""
       <<"2","0","2","5","-","0","9","-","1","7">>,  \* r1 "2025-09-17"
       <<"H","a","r","v","e","s","t">>,  \* r2 "Harvest"
       <<"L","e","e","k"," ","s","o","u","p">>,  \* r3 "Leek soup"
       <<"C","H","E","F","rsquo","S"," ","C","h","o","i","c","e"," ","S","o","u","p","\n","C","e","l","e","r","y">>,  \* r4 "CHEF’S Choice Soup\nCelery"
       <<"C","h","e","f","rsquo","s"," ","c","h","o","i","c","e"," ","s","o","u","p","\n","C","e","l","e","r","y">>,  \* r5 "Chef’s choice soup\nCelery"
       <<"V","e","g"," ","b","a","k","e">>,  \* r6 "Veg bake"
       <<"L","a","m","b">>,  \* r7 "Lamb"
       <<"R","i","c","e">>,  \* r8 "Rice"
       <<"J","e","l","l","y","\n","M","i","l","k",","," ","F","i","s","h">>,  \* r9 "Jelly\nMilk, Fish"
       <<>>,  \* r10 ""
       <<>>,  \* r11 ""
       <<"M","i","l","k">>,  \* r12 "Milk"
       <<"C","h","e","f","rsquo","s"," ","c","h","o","i","c","e"," ","s","o","u","p"," ","(","V","e",")","\n","S","o","y","a">>,  \* r13 "Chef’s choice soup (Ve)\nSoya"
       <<>>,  \* r14 ""
       <<"L","a","m","b"," ","h","o","t","p","o","t">>,  \* r15 "Lamb hotpot"
       <<"F","r","u","i","t">>,  \* r16 "Fruit"
       <<>> >>  \* r17 ""

\* day column D of the weekly grid, rows 0..17
Col_D ==
    << <<"T","h","u","r","s","d","a","y">>,  \* r0 "Thursday"
       <<"s","o","o","n">>,  \* r1 "soon"
       <<>>,  \* r2 ""
       <<"P","e","a"," ","s","o","u","p","\n","E","g","g",","," ","C","e","l","e","r","y">>,  \* r3 "Pea soup\nEgg, Celery"
       <<"S","a","l","a","d">>,  \* r4 "Salad"
       <<"S","o","y","a"," ","c","u","r","r","y"," ","(","V","e",")",","," ","M","u","s","t","a","r","d">>,  \* r5 "Soya curry (Ve), Mustard"
       <<"V","e","g"," ","c","u","r","r","y","\n","m","i","l","d">>,  \* r6 "Veg curry\nmild"
       <<"B","e","e","f"," ","c","u","r","r","y">>,  \* r7 "Beef curry"
       <<"R","i","c","e"," "," ","N","a","a","n">>,  \* r8 "Rice  Naan"
       <<"F","l","a","n"," ","(","V",")","\n","E","g","g">>,  \* r9 "Flan (V)\nEgg"
       <<>>,  \* r10 ""
       <<>>,  \* r11 ""
       <<"C","e","l","e","r","y">>,  \* r12 "Celery"
       <<"S","o","y","a"," ","m","i","n","c","e"," ","(","V","e",")",","," ","M","i","l","k">>,  \* r13 "Soya mince (Ve), Milk"
       <<>>,  \* r14 ""
       <<"C","o","t","t","a","g","e"," ","p","i","e">>,  \* r15 "Cottage pie"
       <<"T","r","i","f","l","e","\n","M","i","l","k",","," ","E","g","g">>,  \* r16 "Trifle\nMilk, Egg"
       <<>> >>  \* r17 ""

\* day column E of the weekly grid, rows 0..17
Col_E ==
    << <<>>,  \* r0 ""
       <<>>,  \* r1 ""
       <<>>,  \* r2 ""
       <<>>,  \* r3 ""
       <<>>,  \* r4 ""
       <<>>,  \* r5 ""
       <<>>,  \* r6 ""
       <<>>,  \* r7 ""
       <<>>,  \* r8 ""
       <<>>,  \* r9 ""
       <<>>,  \* r10 ""
       <<>>,  \* r11 ""
       <<>>,  \* r12 ""
       <<>>,  \* r13 ""
       <<>>,  \* r14 ""
       <<>>,  \* r15 ""
       <<>>,  \* r16 ""
       <<>> >>  \* r17 ""

\* day column F of the weekly grid, rows 0..17
Col_F ==
    << <<"S","a","t","u","r","d","a","y">>,  \* r0 "Saturday"
       <<"3","1","/","0","2","/","2","0","2","5">>,  \* r1 "31/02/2025"
       <<>>,  \* r2 ""
       <<"C","h","e","f","rsquo","s"," ","c","h","o","i","c","e"," ","s","o","u","p"," ","(","V",")","\n","F","i","s","h">>,  \* r3 "Chef’s choice soup (V)\nFish"
       <<"P","a","t","e">>,  \* r4 "Pate"
       <<"J","a","c","k","e","t"," ","w","e","d","g","e","s"," ","(","V","e",")","\n","C","e","l","e","r","y",","," ","M","i","l","k">>,  \* r5 "Jacket wedges (Ve)\nCelery, Milk"
       <<"Q","u","i","c","h","e","\n","E","g","g",","," ","M","i","l","k">>,  \* r6 "Quiche\nEgg, Milk"
       <<"G","a","m","m","o","n">>,  \* r7 "Gammon"
       <<"C","h","i","p","s">>,  \* r8 "Chips"
       <<"C","a","k","e","\n","G","l","u","t","e","n">>,  \* r9 "Cake\nGluten"
       <<>>,  \* r10 ""
       <<>>,  \* r11 ""
       <<"F","i","s","h">>,  \* r12 "Fish"
       <<"V","e","g"," ","c","h","i","l","l","i","\n","x","y","z",","," ","S","o","y","a">>,  \* r13 "Veg chilli\nxyz, Soya"
       <<>>,  \* r14 ""
       <<"C","h","i","l","l","i"," ","o","r"," ","v","e","g","a","n"," ","c","h","i","l","l","i">>,  \* r15 "Chilli or vegan chilli"
       <<"T","a","r","t">>,  \* r16 "Tart"
       <<>> >>  \* r17 ""

\* day column G of the weekly grid, rows 0..17
Col_G ==
    << <<"S","u","n","d","a","y">>,  \* r0 "Sunday"
       <<"2","1","/","0","9","/","2","0","2","5">>,  \* r1 "21/09/2025"
       <<"R","o","a","s","t">>,  \* r2 "Roast"
       <<"B","r","o","t","h","\n","C","e","l","e","r","y">>,  \* r3 "Broth\nCelery"
       <<"P","r","a","w","n","s","\n","C","r","u","s","t","a","c","e","a","n","s">>,  \* r4 "Prawns\nCrustaceans"
       <<"N","u","t"," ","r","o","a","s","t","\n","N","u","t","s",","," ","E","g","g">>,  \* r5 "Nut roast\nNuts, Egg"
       <<"V","e","g"," ","r","o","a","s","t"," ","(","V",")","\n","C","e","l","e","r","y">>,  \* r6 "Veg roast (V)\nCelery"
       <<"R","o","a","s","t"," ","l","a","m","b","\n","M","u","s","t","a","r","d">>,  \* r7 "Roast lamb\nMustard"
       <<"P","e","a","s","\n","C","a","r","r","o","t","s">>,  \* r8 "Peas\nCarrots"
       <<"E","T","O","N"," ","m","e","s","s","\n","M","i","l","k",","," ","E","g","g">>,  \* r9 "ETON mess\nMilk, Egg"
       <<>>,  \* r10 ""
       <<>>,  \* r11 ""
       <<"M","i","l","k",","," ","E","g","g">>,  \* r12 "Milk, Egg"
       <<"N","u","t"," ","c","u","t","l","e","t"," ","(","V","e",")","\n","N","u","t","s">>,  \* r13 "Nut cutlet (Ve)\nNuts"
       <<>>,  \* r14 ""
       <<"R","o","a","s","t"," ","h","a","m","\n","M","u","s","t","a","r","d">>,  \* r15 "Roast ham\nMustard"
       <<"S","P","O","N","G","E","\n","G","l","u","t","e","n">>,  \* r16 "SPONGE\nGluten"
       <<>> >>  \* r17 ""

Columns == <<Col_A, Col_B, Col_C, Col_D, Col_E, Col_F, Col_G>>

\* A weekly document: tables is the number of tables in it, nrows and ncols
\* the shape of its first table, rot which of the seven columns above is the
\* first day column (the others follow in order, cyclically).
\* Text of the cell in row r, column c (both 0-based) of a table that has it.
Content(doc, r, c) ==
    IF c = 0 \/ r >= GridRows \/ c >= GridCols THEN <<>>
    ELSE Columns[((doc.rot + c - 1) % NumDays) + 1][r + 1]

\* cell(r, c) of parse_week: rows[r].cells[c].text, "" on any exception
\* variant of cell without the table's bounds, as if every cell could be
\* located
cell_unchecked(doc, r, c) ==
    Content(doc, r, c)

cell(doc, r, c) ==
    IF r < doc.nrows /\ c < doc.ncols THEN Content(doc, r, c) ELSE <<>>

WeekdayNames ==
    << <<"M","o","n","d","a","y">>,
       <<"T","u","e","s","d","a","y">>,
       <<"W","e","d","n","e","s","d","a","y">>,
       <<"T","h","u","r","s","d","a","y">>,
       <<"F","r","i","d","a","y">>,
       <<"S","a","t","u","r","d","a","y">>,
       <<"S","u","n","d","a","y">> >>

\* s_ice_creams_V = "Ice creams / sorbet (V)"
s_ice_creams_V ==
    <<"I","c","e"," ","c","r","e","a","m","s"," ","/"," ","s","o","r","b","e","t"," ","(","V",
      ")">>

\* s_vegan_ice_Ve = "Selection of vegan ice creams or sorbet with seasonal fruits (Ve)"
s_vegan_ice_Ve ==
    <<"S","e","l","e","c","t","i","o","n"," ","o","f"," ","v","e","g","a","n"," ","i","c","e",
      " ","c","r","e","a","m","s"," ","o","r"," ","s","o","r","b","e","t"," ","w","i","t","h",
      " ","s","e","a","s","o","n","a","l"," ","f","r","u","i","t","s"," ","(","V","e",")">>

\* s_chefs_choice_soup = "Chef’s choice soup"
s_chefs_choice_soup ==
    <<"C","h","e","f","rsquo","s"," ","c","h","o","i","c","e"," ","s","o","u","p">>

\* s_selection_allergens = "Sulphites, Gluten, Mustard, Soya"
s_selection_allergens ==
    <<"S","u","l","p","h","i","t","e","s",","," ","G","l","u","t","e","n",","," ","M","u","s",
      "t","a","r","d",","," ","S","o","y","a">>

\* {"title": g[r].get("title", ""), "allergens": g[r].get("allergens", "")}
\* A lunch starter's title is the one field of a day that the builders can
\* leave holding a RichText, so it is a Plain/rich value.
StarterItem(g) == [title |-> Plain(g.title), allergens |-> g.allergens]
TitledItem(g) == [title |-> g.title, allergens |-> g.allergens]

EmptyStarter == [title |-> Plain(<<>>), allergens |-> <<>>]
EmptyItem == [title |-> <<>>, allergens |-> <<>>]

\* daily(day_idx) of parse_week, day_idx 0-based
daily(doc, day_idx) ==
    LET g(r)      == parse_title_desc_allergens(cell(doc, r, day_idx + 1))
        name      == strip(cell(doc, 0, day_idx + 1))
        day_name  == IF name # <<>> THEN name ELSE WeekdayNames[day_idx + 1]
        date_iso  == to_iso(strip(cell(doc, 1, day_idx + 1)))
        theme     == strip(cell(doc, 2, day_idx + 1))
        opt_raw   == strip(g(8).title \o <<" ">> \o g(8).description)
        lunch_starters == <<StarterItem(g(3)), StarterItem(g(4))>>
        desserts  == <<TitledItem(g(9)),
                       [title |-> s_ice_creams_V, allergens |-> g(10).allergens]>>
        supper_desserts == <<TitledItem(g(16)),
                             [title |-> s_vegan_ice_Ve, allergens |-> g(17).allergens]>>
    IN  [header |->
            [theme    |-> theme,
             date     |-> date_label(date_iso, day_name),
             date_iso |-> date_iso,
             weekday  |-> day_name],
         source |->
            [lunch |->
                [starters       |-> ensure_len(lunch_starters, 2, EmptyStarter),
                 veg_main       |-> g(6),
                 meat_main      |-> g(7),
                 vegan_main     |-> g(5),
                 optional_sides |-> [title |-> normalise_sides(opt_raw),
                                     allergens |-> g(8).allergens],
                 desserts       |-> ensure_len(desserts, 2, EmptyItem)],
             supper |->
                [starter       |-> [title |-> s_chefs_choice_soup,
                                    allergens |-> g(12).allergens],
                 selection     |-> [allergens |-> s_selection_allergens],
                 specials      |-> g(15),
                 vegan_special |-> g(13),
                 desserts      |-> ensure_len(supper_desserts, 2, EmptyItem)]]]

\* variant of parse_week that makes a record only for the day columns the
\* table has
parse_week_present_columns(doc) ==
    IF doc.tables = 0 THEN [err |-> "IndexError", days |-> <<>>]
    ELSE [err |-> "",
          days |-> [i \in 1..Min({NumDays, Max({doc.ncols - 1, 0})}) |-> daily(doc, i - 1)]]

\* parse_week(weekly_docx_path): doc.tables[0] raises IndexError when the
\* document has no table; otherwise the seven day records in column order.
parse_week(doc) ==
    IF doc.tables = 0 THEN [err |-> "IndexError", days |-> <<>>]
    ELSE [err |-> "", days |-> [i \in 1..NumDays |-> daily(doc, i - 1)]]


\* ---------------------------------------------------------------------------
\* Build docxtpl contexts
\* ---------------------------------------------------------------------------

\* s_V_suffix = " (V)"
s_V_suffix ==
    <<" ","(","V",")">>
\* s_Ve_suffix = " (Ve)"
s_Ve_suffix ==
    <<" ","(","V","e",")">>

\* s_soup_V = "Chef’s choice soup (V)"
s_soup_V ==
    <<"C","h","e","f","rsquo","s"," ","c","h","o","i","c","e"," ","s","o","u","p"," ","(","V",
      ")">>

\* s_soup_Ve = "Chef’s choice soup (Ve)"
s_soup_Ve ==
    <<"C","h","e","f","rsquo","s"," ","c","h","o","i","c","e"," ","s","o","u","p"," ","(","V",
      "e",")">>

\* s_jacket_Ve = "Jacket potato and toppings (Ve)"
s_jacket_Ve ==
    <<"J","a","c","k","e","t"," ","p","o","t","a","t","o"," ","a","n","d"," ","t","o","p","p",
      "i","n","g","s"," ","(","V","e",")">>

\* s_vegan_desserts_all = "Gluten, Nuts, Soya, Sulphites"
s_vegan_desserts_all ==
    <<"G","l","u","t","e","n",","," ","N","u","t","s",","," ","S","o","y","a",","," ","S","u",
      "l","p","h","i","t","e","s">>

\* s_sandwiches_Ve = "Henbrook’s assorted sandwiches (Ve)"
s_sandwiches_Ve ==
    <<"H","e","n","b","r","o","o","k","rsquo","s"," ","a","s","s","o","r","t","e","d"," ","s",
      "a","n","d","w","i","c","h","e","s"," ","(","V","e",")">>

\* variant of the highlighting statements that marks nothing
HighlightNothing(x) ==
    x

\* The statement
\*   if _is_chefs_choice_soup(x["title"]): x["title"] = _yellow(x["title"])
\* applied to the dict x: the dict as the statement leaves it.
Highlighted(x) ==
    IF is_chefs_choice_soup(str_(x.title))
    THEN [x EXCEPT !.title = yellow(@)]
    ELSE x

\* The starters list of build_standard_context after its highlighting
\* statements.  ensure_len copies the list, not the dicts in it, so these
\* are the dicts of day["source"]["lunch"]["starters"] themselves.
StandardStarters(day) ==
    LET starters == ensure_len(day.source.lunch.starters, 2, EmptyStarter)
    IN  [k \in 1..2 |-> Highlighted(starters[k])]

\* The day record as a call of build_standard_context(day) leaves it: the
\* writes to starters[k]["title"] land in the record's own starter dicts
\* (every record of parse_week has two of them).
day_after_standard(day) ==
    [day EXCEPT !.source.lunch.starters =
        [k \in 1..Len(@) |-> IF k <= 2 THEN StandardStarters(day)[k] ELSE @[k]]]

\* build_standard_context(day): the returned context
build_standard_context(day) ==
    LET src      == day.source
        header   == day.header
        starters == StandardStarters(day)
        mv       == src.lunch.veg_main
        mm       == src.lunch.meat_main
        opt      == src.lunch.optional_sides
        sp       == src.supper.specials
        supper_starter ==
            Highlighted([title     |-> Plain(s_soup_V),
                         allergens |-> src.lunch.starters[1].allergens])
    IN  [header |-> [theme |-> header.theme, date |-> header.date],
         days   |-> [theme |-> header.theme, date |-> header.date],
         lunch  |->
            [starters |-> [k \in 1..2 |-> [title     |-> starters[k].title,
                                          allergens |-> starters[k].allergens]],
             mains |->
                <<[title       |-> strip_suffixes(mv.title) \o s_V_suffix,
                   description |-> mv.description,
                   allergens   |-> mv.allergens],
                  [title       |-> strip_suffixes(mm.title),
                   description |-> mm.description,
                   allergens   |-> mm.allergens]>>,
             optional_sides |-> [title |-> opt.title, allergens |-> opt.allergens],
             desserts |->
                <<[title     |-> sentence_case(strip_suffixes(src.lunch.desserts[1].title))
                                 \o s_V_suffix,
                   allergens |-> src.lunch.desserts[1].allergens],
                  [title     |-> src.lunch.desserts[2].title,
                   allergens |-> src.lunch.desserts[2].allergens]>>],
         supper |->
            [starter   |-> supper_starter,
             selection |-> [allergens |-> s_selection_allergens],
             specials  |-> [title       |-> strip_suffixes(sp.title),
                            description |-> sp.description,
                            allergens   |-> sp.allergens],
             desserts |->
                <<[title     |-> sentence_case(strip_suffixes(src.supper.desserts[1].title))
                                 \o s_V_suffix,
                   allergens |-> src.supper.desserts[1].allergens],
                  [title     |-> src.supper.desserts[2].title,
                   allergens |-> src.supper.desserts[2].allergens]>>]]

\* w_ve_open = "(ve"
w_ve_open ==
    <<"(","v","e">>
\* w_ve_tag = "(ve)"
w_ve_tag ==
    <<"(","v","e",")">>
\* w_vegan = "vegan"
w_vegan ==
    <<"v","e","g","a","n">>
\* w_jacket = "jacket"
w_jacket ==
    <<"j","a","c","k","e","t">>
\* w_or = "or"
w_or ==
    <<"o","r">>

\* End of the match of [A-Za-z].*?\(ve\) (ignoring case) that starts at i,
\* 0 when there is none: a letter at i, then the nearest "(ve)" on the same
\* line.
LazyVeEnd(s, i) ==
    LET js == {j \in (i + 1)..Len(s) :
                  /\ MatchAt(lower(s), j, w_ve_tag)
                  /\ \A k \in (i + 1)..(j - 1) : s[k] # "\n"}
    IN  IF i <= Len(s) /\ isalpha(s[i]) /\ js # {} THEN Min(js) + 3 ELSE 0

\* re.search(r"[A-Za-z].+\(ve\)", s, re.I) finds a match
HasTextBeforeVe(s) ==
    \E i \in 1..Len(s) : \E j \in (i + 2)..Len(s) :
        /\ isalpha(s[i])
        /\ MatchAt(lower(s), j, w_ve_tag)
        /\ \A k \in (i + 1)..(j - 1) : s[k] # "\n"

\* re.search(r"([A-Za-z].*?\(ve\))", s, flags=re.I): group(1), <<>> when
\* there is no match
VeTitleIn(s) ==
    LET is == {i \in 1..Len(s) : LazyVeEnd(s, i) > 0}
    IN  IF is = {} THEN <<>> ELSE SubSeq(s, Min(is), LazyVeEnd(s, Min(is)))

\* Length of the match of [A-Za-z].*?\(ve\)\s* at position i (0: none)
VeTitleLen(s, i) ==
    LET e == LazyVeEnd(s, i)
    IN  IF e > 0 THEN e - i + 1 + RunLen(s, e + 1, Whitespace) ELSE 0

\* re.sub(r"[A-Za-z].*?\(ve\)\s*", "", s, flags=re.I), from position i on
RECURSIVE RemoveVeTitlesFrom(_, _)
RemoveVeTitlesFrom(s, i) ==
    LET k == NextMatch(s, i, VeTitleLen)
    IN  IF k = 0 THEN From(s, i)
        ELSE SubSeq(s, i, k - 1) \o RemoveVeTitlesFrom(s, k + VeTitleLen(s, k))

RemoveVeTitles(s) == RemoveVeTitlesFrom(s, 1)

\* variant of the safety net that takes the dish title found in the allergens
\* line whatever the row's own title is
RecoverTitleAlways(title_raw, all_raw) ==
    IF contains(lower(all_raw), w_ve_open) \/ HasTextBeforeVe(all_raw)
    THEN [title |-> IF VeTitleIn(all_raw) # <<>>
                    THEN strip(VeTitleIn(all_raw))
                    ELSE title_raw,
          allergens |-> strip(RemoveVeTitles(all_raw))]
    ELSE [title |-> title_raw, allergens |-> all_raw]

\* The safety net of build_vegan_context for a vegan row (title, allergens):
\* a "(Ve)" dish title found in the allergens line is taken as the title when
\* the row has none, and removed from the allergens.
RecoverTitle(title_raw, all_raw) ==
    IF contains(lower(all_raw), w_ve_open) \/ HasTextBeforeVe(all_raw)
    THEN [title |-> IF VeTitleIn(all_raw) # <<>> /\ Len(strip_suffixes(title_raw)) < 2
                    THEN strip(VeTitleIn(all_raw))
                    ELSE title_raw,
          allergens |-> strip(RemoveVeTitles(all_raw))]
    ELSE [title |-> title_raw, allergens |-> all_raw]

\* Length of the delimiter /|\n|;|\||\bor\b (ignoring case) at position p
VariantDelimLen(s, p) ==
    IF p > Len(s) THEN 0
    ELSE IF s[p] \in {"/", "\n", ";", "|"} THEN 1
    ELSE IF /\ MatchAt(lower(s), p, w_or)
            /\ p = 1 \/ ~isword(s[p - 1])
            /\ p + 2 > Len(s) \/ ~isword(s[p + 2])
         THEN 2
    ELSE 0

\* Length of the match of \s*(?:/|\n|;|\||\bor\b)\s* at position i (0: none).
\* The leading \s* is greedy and gives characters back until a delimiter
\* follows it.
VariantSepLen(s, i) ==
    LET n  == RunLen(s, i, Whitespace)
        ks == {k \in 0..n : VariantDelimLen(s, i + k) > 0}
    IN  IF ks = {} THEN 0
        ELSE LET k == Max(ks)
                 e == i + k + VariantDelimLen(s, i + k)
             IN  k + VariantDelimLen(s, i + k) + RunLen(s, e, Whitespace)

\* re.split(r"\s*(?:/|\n|;|\||\bor\b)\s*", s, flags=re.I), from position i on
RECURSIVE VariantSplit(_, _)
VariantSplit(s, i) ==
    LET k == NextMatch(s, i, VariantSepLen)
    IN  IF k = 0 THEN <<From(s, i)>>
        ELSE <<SubSeq(s, i, k - 1)>> \o VariantSplit(s, k + VariantSepLen(s, k))

LooksVegan(p) == contains(lower(p), w_ve_tag) \/ contains(lower(p), w_vegan)

\* variant of pick_vegan_variant that returns the last segment that looks
\* vegan
pick_vegan_variant_last(title, description) ==
    LET combined == strip(title \o <<" ">> \o description)
        parts    == VariantSplit(combined, 1)
        vegan    == SelectSeq(parts, LooksVegan)
    IN  IF combined = <<>> THEN add_suffix(title, tag_Ve)
        ELSE IF vegan # <<>> THEN add_suffix(strip_suffixes(strip(vegan[Len(vegan)])), tag_Ve)
        ELSE add_suffix(strip_suffixes(title), tag_Ve)

\* pick_vegan_variant(title, description)
pick_vegan_variant(title, description) ==
    LET combined == strip(title \o <<" ">> \o description)
        parts    == VariantSplit(combined, 1)
        vegan    == SelectSeq(parts, LooksVegan)
    IN  IF combined = <<>> THEN add_suffix(title, tag_Ve)
        ELSE IF vegan # <<>> THEN add_suffix(strip_suffixes(strip(vegan[1])), tag_Ve)
        ELSE add_suffix(strip_suffixes(title), tag_Ve)

\* vegan_main_desc / veg_special_desc: the row's own description, else the
\* Standard row's description highlighted, else ""
BorrowedDescription(own, standard) ==
    IF strip(own) # <<>> THEN Plain(strip(own))
    ELSE IF strip(standard) # <<>> THEN yellow(Plain(strip(standard)))
    ELSE Plain(<<>>)

\* build_vegan_context(day) up to its return: the context, provided no call
\* in it raises
VeganContext(day) ==
    LET src      == day.source
        header   == day.header
        starters == ensure_len(src.lunch.starters, 2, EmptyStarter)
        vmain    == src.lunch.vegan_main
        vegstd   == src.lunch.veg_main
        v        == RecoverTitle(vmain.title, vmain.allergens)
        sp_std   == src.supper.specials
        sp_veg   == src.supper.vegan_special
        vs       == RecoverTitle(sp_veg.title, sp_veg.allergens)
        vs_title_raw ==
            IF strip(vs.title) = <<>>
            THEN add_suffix(strip_suffixes(
                     pick_vegan_variant(sp_std.title, sp_std.description)), tag_Ve)
            ELSE vs.title
    IN  [header |-> [theme |-> header.theme, date |-> header.date],
         days   |-> [theme |-> header.theme, date |-> header.date],
         lunch  |->
            [starters |->
                <<[title     |-> add_suffix(strip_suffixes(starters[1].title.text), tag_Ve),
                   allergens |-> remove_tokens_from_csv(starters[1].allergens)],
                  [title |-> <<>>, allergens |-> <<>>]>>,
             mains |->
                <<[title |-> s_jacket_Ve, description |-> Plain(<<>>), allergens |-> <<>>],
                  [title       |-> add_suffix(strip_suffixes(v.title), tag_Ve),
                   description |-> BorrowedDescription(vmain.description, vegstd.description),
                   allergens   |-> remove_tokens_from_csv(v.allergens)]>>,
             optional_sides |->
                [title     |-> src.lunch.optional_sides.title,
                 allergens |-> remove_tokens_from_csv(src.lunch.optional_sides.allergens)],
             desserts |->
                <<[title     |-> yellow(Plain(
                                   sentence_case(strip_suffixes(src.lunch.desserts[1].title))
                                   \o s_Ve_suffix)),
                   allergens |-> s_vegan_desserts_all],
                  [title     |-> Plain(s_vegan_ice_Ve),
                   allergens |-> s_vegan_desserts_all]>>],
         supper |->
            [starter   |-> [title     |-> yellow(Plain(s_soup_Ve)),
                            allergens |-> remove_tokens_from_csv(starters[1].allergens)],
             selection |-> [title |-> s_sandwiches_Ve, allergens |-> s_selection_allergens],
             specials  |-> [title       |-> add_suffix(strip_suffixes(vs_title_raw), tag_Ve),
                            description |-> BorrowedDescription(sp_veg.description,
                                                                sp_std.description),
                            allergens   |-> remove_tokens_from_csv(vs.allergens)],
             desserts |->
                <<[title     |-> yellow(Plain(
                                   sentence_case(strip_suffixes(src.supper.desserts[1].title))
                                   \o s_Ve_suffix)),
                   allergens |-> s_vegan_desserts_all],
                  [title     |-> Plain(s_vegan_ice_Ve),
                   allergens |-> s_vegan_desserts_all]>>]]

\* build_vegan_context(day): strip_suffixes(starters[0].get("title", ""))
\* hands the title to re.sub, which raises TypeError for anything but a str.
\* ctx is the returned context in a one-element sequence, <<>> when the call
\* raised.
build_vegan_context(day) ==
    IF day.source.lunch.starters[1].title.rich
    THEN [err |-> "TypeError", ctx |-> <<>>]
    ELSE [err |-> "", ctx |-> <<VeganContext(day)>>]


\* ---------------------------------------------------------------------------
\* Allergens table: build rows
\* ---------------------------------------------------------------------------

\* s_heading_standard = "— Standard —"
s_heading_standard ==
    <<"mdash"," ","S","t","a","n","d","a","r","d"," ","mdash">>

\* s_heading_vegan = "— Vegan —"
s_heading_vegan ==
    <<"mdash"," ","V","e","g","a","n"," ","mdash">>

\* the fixed ticks of the jacket potato row
JacketCols == {"Celery", "Sulphur", "Cereals with Gluten", "Mustards"}

\* add(title, allergens, heading=..., force_vegan_dessert=...) of
\* _collect_allergen_items_for_table: the rows the call appends (none or
\* one).  A row is the tuple (title, cols, is_heading); slot names the add
\* call that made it and is no part of the tuple.
add_heading(slot, title) ==
    <<[slot |-> slot, title |-> title, cols |-> {}, heading |-> TRUE]>>

\* allergens given as a set
add_set(slot, title, cols) ==
    IF strip(title) = <<>> THEN <<>>
    ELSE <<[slot |-> slot, title |-> strip(title), cols |-> cols, heading |-> FALSE]>>

\* allergens given as text
add_csv(slot, title, allergens, force_vegan_dessert) ==
    LET txt == IF force_vegan_dessert THEN s_vegan_desserts_all ELSE allergens
    IN  add_set(slot, title, parse_allergen_csv(txt))

\* the body of `for m in veg_ctx["lunch"]["mains"]` for one m
add_vegan_main(slot, m) ==
    IF contains(lower(m.title), w_jacket)
    THEN add_set(slot, s_jacket_Ve, JacketCols)
    ELSE add_set(slot, m.title, scrub_vegan_csv_to_canonset(m.allergens))

\* _collect_allergen_items_for_table(day, std_ctx, veg_ctx) up to its
\* return: the rows in display order, provided no call in it raises
AllergenItems(day, std_ctx, veg_ctx) ==
    LET src == day.source
    IN  \* ----- Standard -----
        add_heading("standard", s_heading_standard)
        \o add_csv("std_starter_1", str_(src.lunch.starters[1].title),
                   src.lunch.starters[1].allergens, FALSE)
        \o add_csv("std_starter_2", str_(src.lunch.starters[2].title),
                   src.lunch.starters[2].allergens, FALSE)
        \o add_csv("std_veg_main", src.lunch.veg_main.title,
                   src.lunch.veg_main.allergens, FALSE)
        \o add_csv("std_meat_main", src.lunch.meat_main.title,
                   src.lunch.meat_main.allergens, FALSE)
        \o add_csv("std_sides", src.lunch.optional_sides.title,
                   src.lunch.optional_sides.allergens, FALSE)
        \o add_csv("std_dessert", std_ctx.lunch.desserts[1].title,
                   std_ctx.lunch.desserts[1].allergens, FALSE)
        \o add_csv("std_supper_soup", s_soup_V, src.supper.starter.allergens, FALSE)
        \o add_csv("std_special", std_ctx.supper.specials.title,
                   std_ctx.supper.specials.allergens, FALSE)
        \o add_csv("std_supper_dessert", std_ctx.supper.desserts[1].title,
                   std_ctx.supper.desserts[1].allergens, FALSE)
        \* ----- Vegan -----
        \o add_heading("vegan", s_heading_vegan)
        \o add_set("veg_starter", add_suffix(src.lunch.starters[1].title.text, tag_Ve),
                   scrub_vegan_csv_to_canonset(src.lunch.starters[1].allergens))
        \o add_vegan_main("veg_main_1", veg_ctx.lunch.mains[1])
        \o add_vegan_main("veg_main_2", veg_ctx.lunch.mains[2])
        \o add_set("veg_sides", src.lunch.optional_sides.title,
                   scrub_vegan_csv_to_canonset(src.lunch.optional_sides.allergens))
        \o add_csv("veg_dessert",
                   sentence_case(strip_suffixes(src.lunch.desserts[1].title)) \o s_Ve_suffix,
                   s_vegan_desserts_all, TRUE)
        \o add_set("veg_supper_soup", s_soup_Ve,
                   scrub_vegan_csv_to_canonset(src.supper.starter.allergens))
        \o add_set("veg_special",
                   add_suffix(strip_suffixes(src.supper.vegan_special.title), tag_Ve),
                   scrub_vegan_csv_to_canonset(src.supper.vegan_special.allergens))
        \o add_csv("veg_supper_dessert",
                   sentence_case(strip_suffixes(src.supper.desserts[1].title)) \o s_Ve_suffix,
                   s_vegan_desserts_all, TRUE)

\* the sequence backwards
Reversed(q) == [k \in 1..Len(q) |-> q[Len(q) + 1 - k]]

\* variant of _collect_allergen_items_for_table that returns the rows in the
\* opposite order
collect_allergen_items_reversed(day, std_ctx, veg_ctx) ==
    IF day.source.lunch.starters[1].title.rich
    THEN [err |-> "TypeError", items |-> <<>>]
    ELSE [err |-> "", items |-> Reversed(AllergenItems(day, std_ctx, veg_ctx))]

\* _collect_allergen_items_for_table(day, std_ctx, veg_ctx):
\* add_suffix(src["lunch"]["starters"][0].get("title", ""), "(Ve)") hands the
\* title to re.sub, which raises TypeError for anything but a str.
collect_allergen_items_for_table(day, std_ctx, veg_ctx) ==
    IF day.source.lunch.starters[1].title.rich
    THEN [err |-> "TypeError", items |-> <<>>]
    ELSE [err |-> "", items |-> AllergenItems(day, std_ctx, veg_ctx)]


\* ---------------------------------------------------------------------------
\* State
\* ---------------------------------------------------------------------------

VARIABLES
    doc,      \* the weekly document given to parse_week
    days,     \* week["days"]: the day records, as the program holds them now
    parsed,   \* the same records as parse_week returned them (history)
    dpc,      \* per day: how far its pipeline has come
    std_ctx,  \* per day: <<the Standard context>>, <<>> before it is built
    veg_ctx,  \* per day: <<the Vegan context>>, <<>> before it is built
    rows,     \* per day: the allergen rows, <<>> before they are collected
    derr,     \* per day: the exception that ended its pipeline, "" if none
    req,      \* the request of a front-end run
    pc,       \* where the front-end run is
    targets,  \* the days still to render in this run
    made,     \* the day ZIPs written by this run, in order
    outcome,  \* how the run ended, once it has
    call,     \* a single call of one function: its name and arguments
    ret,      \* what that call returned, <<>> before it is made
    api       \* the requests of the /generate endpoint: where each is, its
              \* temporary directory, its background tasks, its response

vars == <<doc, days, parsed, dpc, std_ctx, veg_ctx, rows, derr,
          req, pc, targets, made, outcome, call, ret, api>>

DayIds == 1..NumDays

\* how many day pipelines run side by side
MaxWorkers == 2

\* a weekly document that follows the grid convention
FullDocs ==
    {[tables |-> 1, nrows |-> GridRows, ncols |-> GridCols, rot |-> r] :
        r \in 0..(NumDays - 1)}

NoRequest == [front |-> "none", date |-> <<>>, all_days |-> FALSE, templates |-> TRUE]
NoOutcome == [kind |-> "", msg |-> <<>>, day |-> 0]
NoCall == [fn |-> "none", arg |-> <<>>]

\* ---------------------------------------------------------------------------
\* The per-day pipeline of render_day_to_zip, one builder call per step, for
\* several days side by side
\* ---------------------------------------------------------------------------

Init ==
    /\ doc \in FullDocs
    /\ days = parse_week(doc).days
    /\ parsed = days
    /\ dpc = [d \in DayIds |-> "idle"]
    /\ std_ctx = [d \in DayIds |-> <<>>]
    /\ veg_ctx = [d \in DayIds |-> <<>>]
    /\ rows = [d \in DayIds |-> <<>>]
    /\ derr = [d \in DayIds |-> ""]
    /\ req = NoRequest
    /\ pc = "core"
    /\ targets = <<>>
    /\ made = <<>>
    /\ outcome = NoOutcome
    /\ call = NoCall
    /\ ret = <<>>
    /\ api = <<>>

\* variant of days_after_standard in which the records of all days share the
\* starter dicts, as they would had parse_week built them once
days_after_standard_shared(ds, d) ==
    [e \in DOMAIN ds |->
        [ds[e] EXCEPT !.source.lunch.starters = StandardStarters(ds[d])]]

\* week["days"] after build_standard_context(days[d]): the call writes to the
\* starter dicts of day d, which no other day's record shares (parse_week
\* builds them per day)
days_after_standard(ds, d) == [ds EXCEPT ![d] = day_after_standard(ds[d])]

\* std_ctx = build_standard_context(day)
BuildStandard(d) ==
    /\ dpc[d] = "idle"
    /\ Cardinality({e \in DayIds : dpc[e] # "idle"}) < MaxWorkers
    /\ std_ctx' = [std_ctx EXCEPT ![d] = <<build_standard_context(days[d])>>]
    /\ days' = days_after_standard(days, d)
    /\ dpc' = [dpc EXCEPT ![d] = "standard"]
    /\ UNCHANGED <<doc, parsed, veg_ctx, rows, derr, req, pc, targets, made, outcome, call, ret, api>>

\* veg_ctx = build_vegan_context(day)
BuildVegan(d) ==
    /\ dpc[d] = "standard"
    /\ \E r \in {build_vegan_context(days[d])} :
           /\ veg_ctx' = [veg_ctx EXCEPT ![d] = r.ctx]
           /\ derr' = [derr EXCEPT ![d] = r.err]
           /\ dpc' = [dpc EXCEPT ![d] = IF r.err = "" THEN "vegan" ELSE "failed"]
    /\ UNCHANGED <<doc, days, parsed, std_ctx, rows, req, pc, targets, made, outcome, call, ret, api>>

\* rows = _collect_allergen_items_for_table(day, std_ctx, veg_ctx)
CollectRows(d) ==
    /\ dpc[d] = "vegan"
    /\ \E r \in {collect_allergen_items_for_table(days[d], std_ctx[d][1], veg_ctx[d][1])} :
           /\ rows' = [rows EXCEPT ![d] = r.items]
           /\ derr' = [derr EXCEPT ![d] = r.err]
           /\ dpc' = [dpc EXCEPT ![d] = IF r.err = "" THEN "done" ELSE "failed"]
    /\ UNCHANGED <<doc, days, parsed, std_ctx, veg_ctx, req, pc, targets, made, outcome, call, ret, api>>

Next ==
    \E d \in DayIds :
        \/ BuildStandard(d)
        \/ BuildVegan(d)
        \/ CollectRows(d)

Spec == Init /\ [][Next]_vars


\* ---------------------------------------------------------------------------
\* Properties of the builders (specification Spec)
\* ---------------------------------------------------------------------------

\* C1: the three builders are read-only on the day record: after any of
\* their calls every day record is still as parse_week returned it.
\* build_standard_context breaks this: it writes the highlighted title into
\* the record's own starter dict.
C1_DayRecordUnchanged ==
    \A d \in DayIds : days[d] = parsed[d]

\* the rows of one day whose title contains the vegan supper soup label
SoupVeRows(rs) ==
    {i \in DOMAIN rs : contains(rs[i].title, s_soup_Ve)}

\* C2: the row list of a day has at most one row whose title contains
\* "Chef's choice soup (Ve)".  A vegan main or a vegan special of that title
\* adds a second and a third.
C2_OneVeganSoupRow ==
    \A d \in DayIds : Cardinality(SoupVeRows(rows[d])) <= 1

\* the rows of one day that come after the vegan heading
VeganRows(rs) ==
    {i \in DOMAIN rs :
        /\ ~rs[i].heading
        /\ \E h \in 1..(i - 1) : rs[h].heading /\ rs[h].title = s_heading_vegan}

\* C3: no row after the vegan heading has the Milk or the Eggs category.
C3_VeganRowsWithoutMilkEggs ==
    \A d \in DayIds :
        \A i \in VeganRows(rows[d]) : rows[d][i].cols \cap {"Milk", "Eggs"} = {}

\* C3 happens: rows are collected for a day whose lunch starter, vegan main,
\* sides and vegan special all list Milk in the weekly document
C3_Witness ==
    \E d \in DayIds :
        /\ dpc[d] = "done"
        /\ VeganRows(rows[d]) # {}
        /\ "Milk" \in parse_allergen_csv(parsed[d].source.lunch.starters[1].allergens)
        /\ "Milk" \in parse_allergen_csv(parsed[d].source.lunch.vegan_main.allergens)

FixedDessertCols == {"Cereals with Gluten", "Nuts from Trees", "Soybeans", "Sulphur"}

\* C4: every vegan dessert of the Vegan context (lunch and supper) carries
\* the allergen text "Gluten, Nuts, Soya, Sulphites", and the two vegan
\* dessert rows of the matrix have exactly the categories Cereals with
\* Gluten, Nuts from Trees, Soybeans and Sulphur, whatever the weekly
\* document says about the desserts.
C4_VeganDessertsFixed ==
    \A d \in DayIds :
        /\ veg_ctx[d] # <<>> =>
              \A k \in 1..2 :
                  /\ veg_ctx[d][1].lunch.desserts[k].allergens = s_vegan_desserts_all
                  /\ veg_ctx[d][1].supper.desserts[k].allergens = s_vegan_desserts_all
        /\ dpc[d] = "done" =>
              \A slot \in {"veg_dessert", "veg_supper_dessert"} :
                  /\ Cardinality({i \in DOMAIN rows[d] : rows[d][i].slot = slot}) = 1
                  /\ \A i \in DOMAIN rows[d] :
                        rows[d][i].slot = slot => rows[d][i].cols = FixedDessertCols

\* C4 happens: rows are collected for a day whose source desserts list
\* other allergens than the fixed ones
C4_Witness ==
    \E d \in DayIds :
        /\ dpc[d] = "done"
        /\ parse_allergen_csv(parsed[d].source.lunch.desserts[1].allergens)
              \notin {{}, FixedDessertCols}
        /\ parse_allergen_csv(parsed[d].source.supper.desserts[1].allergens)
              \notin {{}, FixedDessertCols}

\* C5: for a day record whose date is a valid calendar date, the sequence
\* build_standard_context, build_vegan_context, row collection never raises.
\* It raises when the first lunch starter is a chef's choice soup.
C5_PipelineNeverRaises ==
    \A d \in DayIds :
        fromisoformat(parsed[d].header.date_iso).ok => dpc[d] # "failed"

\* C10: the days of one week can be processed in any interleaving: whatever
\* the other days' pipelines have done, each day's record, contexts, rows and
\* error are those of its own pipeline run alone on its record as parsed.
C10_DaysIndependent ==
    \A d \in DayIds :
        LET d1   == day_after_standard(parsed[d])
            std  == build_standard_context(parsed[d])
            veg  == build_vegan_context(d1)
            coll == collect_allergen_items_for_table(d1, std, veg.ctx[1])
        IN  /\ days[d] = IF dpc[d] = "idle" THEN parsed[d] ELSE d1
            /\ std_ctx[d] = IF dpc[d] = "idle" THEN <<>> ELSE <<std>>
            /\ veg_ctx[d] = IF dpc[d] \in {"idle", "standard"} THEN <<>> ELSE veg.ctx
            /\ derr[d] = IF dpc[d] = "failed" THEN veg.err ELSE ""
            /\ rows[d] = IF dpc[d] = "done" THEN coll.items ELSE <<>>
            /\ dpc[d] = "failed" => veg.err # ""
            /\ dpc[d] \in {"vegan", "done"} => veg.err = "" /\ coll.err = ""

\* C10 happens: two days are in the middle of their pipelines at once, one of
\* them with a record that its Standard builder has changed
C10_Witness ==
    \E d, e \in DayIds :
        /\ d # e
        /\ dpc[d] = "standard" /\ days[d] # parsed[d]
        /\ dpc[e] = "vegan"


\* ---------------------------------------------------------------------------
\* One run of a front end: main of generate_menus.py ("cli") and
\* generate_and_collect of app.py ("form")
\* ---------------------------------------------------------------------------

\* s_date = "Date "
s_date ==
    <<"D","a","t","e"," ">>

\* s_not_found = " not found in weekly grid."
s_not_found ==
    <<" ","n","o","t"," ","f","o","u","n","d"," ","i","n"," ","w","e","e","k","l","y"," ","g",
      "r","i","d",".">>

\* s_provide_date = "Provide --date YYYY-MM-DD or --all-days."
s_provide_date ==
    <<"P","r","o","v","i","d","e"," ","-","-","d","a","t","e"," ","Y","Y","Y","Y","-","M","M",
      "-","D","D"," ","o","r"," ","-","-","a","l","l","-","d","a","y","s",".">>

\* s_template_not_found = "Template not found: templates/standard.docx"
s_template_not_found ==
    <<"T","e","m","p","l","a","t","e"," ","n","o","t"," ","f","o","u","n","d",":"," ","t","e",
      "m","p","l","a","t","e","s","/","s","t","a","n","d","a","r","d",".","d","o","c","x">>

\* s_residents = "Residents_"
s_residents ==
    <<"R","e","s","i","d","e","n","t","s","_">>

\* s_allergens_residents = "Allergens_Residents_"
s_allergens_residents ==
    <<"A","l","l","e","r","g","e","n","s","_","R","e","s","i","d","e","n","t","s","_">>

\* s_docx = ".docx"
s_docx ==
    <<".","d","o","c","x">>

\* s_vegan_docx = "_vegan.docx"
s_vegan_docx ==
    <<"_","v","e","g","a","n",".","d","o","c","x">>

\* s_zip = "-menus-and-allergens.zip"
s_zip ==
    <<"-","m","e","n","u","s","-","a","n","d","-","a","l","l","e","r","g","e","n","s",".","z",
      "i","p">>

\* d_monday = "2025-09-15"
d_monday ==
    <<"2","0","2","5","-","0","9","-","1","5">>

\* d_wednesday = "2025-09-17"
d_wednesday ==
    <<"2","0","2","5","-","0","9","-","1","7">>

\* d_christmas = "2025-12-25"
d_christmas ==
    <<"2","0","2","5","-","1","2","-","2","5">>

\* d_soon = "soon"
d_soon ==
    <<"s","o","o","n">>

\* row and column counts of a table that is smaller than the grid
ShortRows == 2
ShortCols == 5

\* the weekly documents of a run: without a table, or with one table of
\* some shape
RunDocs ==
    {[tables |-> 0, nrows |-> 0, ncols |-> 0, rot |-> 0]}
    \cup {[tables |-> 1, nrows |-> nr, ncols |-> nc, rot |-> r] :
            nr \in {0, ShortRows, GridRows}, nc \in {ShortCols, GridCols},
            r \in 0..(NumDays - 1)}

\* --date / date_iso: none (<<>>), a date of the week, a date outside it,
\* and the text of an unparseable date cell
RequestDates == {<<>>, d_monday, d_wednesday, d_christmas, d_soon}

\* templates: whether the three template files are where the front end
\* looks for them
Requests ==
    {[front |-> "cli", date |-> dt, all_days |-> a, templates |-> t] :
        dt \in RequestDates, a \in BOOLEAN, t \in BOOLEAN}
    \cup {[front |-> "form", date |-> dt, all_days |-> FALSE, templates |-> t] :
        dt \in RequestDates, t \in BOOLEAN}

InitRun ==
    /\ doc \in RunDocs
    /\ req \in Requests
    /\ pc = "start"
    /\ days = <<>>
    /\ parsed = <<>>
    /\ dpc = [d \in DayIds |-> "idle"]
    /\ std_ctx = [d \in DayIds |-> <<>>]
    /\ veg_ctx = [d \in DayIds |-> <<>>]
    /\ rows = [d \in DayIds |-> <<>>]
    /\ derr = [d \in DayIds |-> ""]
    /\ targets = <<>>
    /\ made = <<>>
    /\ outcome = NoOutcome
    /\ call = NoCall
    /\ ret = <<>>
    /\ api = <<>>

\* SystemExit in main, RuntimeError in generate_and_collect
FrontError(r) == IF r.front = "cli" THEN "SystemExit" ELSE "RuntimeError"

\* resolve_templates(args) of main, _resolve_templates(tdir) of the form
ResolveTemplates ==
    /\ pc = (IF req.front = "cli" THEN "start" ELSE "parsed")
    /\ IF req.templates
       THEN /\ pc' = (IF req.front = "cli" THEN "resolved" ELSE "select")
            /\ outcome' = outcome
       ELSE /\ pc' = "failed"
            /\ outcome' = [kind |-> FrontError(req), msg |-> s_template_not_found, day |-> 0]
    /\ UNCHANGED <<doc, days, parsed, dpc, std_ctx, veg_ctx, rows, derr, req, targets, made, call, ret, api>>

\* week = parse_week(...); days = week["days"]
ParseWeek ==
    /\ pc = (IF req.front = "cli" THEN "resolved" ELSE "start")
    /\ \E r \in {parse_week(doc)} :
           IF r.err # ""
           THEN /\ pc' = "failed"
                /\ outcome' = [kind |-> r.err, msg |-> <<>>, day |-> 0]
                /\ UNCHANGED <<days, parsed, api>>
           ELSE /\ pc' = (IF req.front = "cli" THEN "select" ELSE "parsed")
                /\ days' = r.days
                /\ parsed' = r.days
                /\ outcome' = outcome
    /\ UNCHANGED <<doc, dpc, std_ctx, veg_ctx, rows, derr, req, targets, made, call, ret, api>>


\* the days in column order
AllTargets(ds) == [k \in 1..Len(ds) |-> k]

\* next((d for d in days if d["header"]["date_iso"] == date), None)
FirstWithDate(ds, date) ==
    LET hits == {d \in DOMAIN ds : ds[d].header.date_iso = date}
    IN  IF hits = {} THEN 0 ELSE Min(hits)

\* variant of select_targets that renders the whole week when the date is not
\* in the grid
select_targets_lenient(r, ds) ==
    IF r.front = "cli" /\ ~r.all_days /\ r.date = <<>>
    THEN [err |-> FrontError(r), msg |-> s_provide_date, targets |-> <<>>]
    ELSE IF (r.front = "cli" /\ r.all_days) \/ r.date = <<>>
         \/ FirstWithDate(ds, r.date) = 0
    THEN [err |-> "", msg |-> <<>>, targets |-> AllTargets(ds)]
    ELSE [err |-> "", msg |-> <<>>, targets |-> <<FirstWithDate(ds, r.date)>>]

\* "Decide what to render": main after parse_week, generate_and_collect after
\* _resolve_templates.  The days to render, or the error raised.
select_targets(r, ds) ==
    LET found    == FirstWithDate(ds, r.date)
        notfound == [err |-> FrontError(r),
                     msg |-> s_date \o r.date \o s_not_found,
                     targets |-> <<>>]
        one      == [err |-> "", msg |-> <<>>, targets |-> <<found>>]
        all      == [err |-> "", msg |-> <<>>, targets |-> AllTargets(ds)]
    IN  IF r.front = "cli"
        THEN IF r.all_days THEN all
             ELSE IF r.date = <<>>
             THEN [err |-> FrontError(r), msg |-> s_provide_date, targets |-> <<>>]
             ELSE IF found = 0 THEN notfound ELSE one
        ELSE IF r.date # <<>>
             THEN IF found = 0 THEN notfound ELSE one
             ELSE all

Select ==
    /\ pc = "select"
    /\ \E s \in {select_targets(req, days)} :
           IF s.err # ""
           THEN /\ pc' = "failed"
                /\ outcome' = [kind |-> s.err, msg |-> s.msg, day |-> 0]
                /\ targets' = targets
           ELSE /\ pc' = "render"
                /\ targets' = s.targets
                /\ outcome' = outcome
    /\ UNCHANGED <<doc, days, parsed, dpc, std_ctx, veg_ctx, rows, derr, req, made, call, ret, api>>

\* render_day_to_zip(day, ...): the record as the call leaves it, what it
\* built, the error it raised ("" if none) and the ZIP it wrote (<<>> if it
\* raised).  The template files exist and render.
render_day_to_zip(day) ==
    LET std      == build_standard_context(day)
        day1     == day_after_standard(day)
        veg      == build_vegan_context(day1)
        d        == fromisoformat(day1.header.date_iso)
        slug     == strftime_dmY(d, "-")
        std_name == s_residents \o slug \o s_docx
        veg_name == s_residents \o slug \o s_vegan_docx
        all_name == s_allergens_residents \o slug \o s_docx
        zip_name == day1.header.weekday \o <<"-">> \o slug \o s_zip
        coll     == collect_allergen_items_for_table(day1, std, veg.ctx[1])
        raised(e, v, r) ==
            [err |-> e, day |-> day1, std |-> <<std>>, veg |-> v, rows |-> r, zip |-> <<>>]
    IN  IF veg.err # "" THEN raised(veg.err, <<>>, <<>>)
        ELSE IF ~d.ok THEN raised("ValueError", veg.ctx, <<>>)
        ELSE IF coll.err # "" THEN raised(coll.err, veg.ctx, <<>>)
        ELSE [err |-> "", day |-> day1, std |-> <<std>>, veg |-> veg.ctx,
              rows |-> coll.items,
              zip |-> <<[name |-> zip_name,
                         members |-> <<std_name, veg_name, all_name>>]>>]

\* one call of render_day_to_zip in the loop over the targets.  An exception
\* ends the run; in the form it also discards the ZIPs made so far (they are
\* in the temporary directory and outputs is never returned).
RenderDay ==
    /\ pc = "render"
    /\ targets # <<>>
    /\ \E d \in {Head(targets)} : \E r \in {render_day_to_zip(days[d])} :
           /\ days' = [days EXCEPT ![d] = r.day]
           /\ std_ctx' = [std_ctx EXCEPT ![d] = r.std]
           /\ veg_ctx' = [veg_ctx EXCEPT ![d] = r.veg]
           /\ rows' = [rows EXCEPT ![d] = r.rows]
           /\ derr' = [derr EXCEPT ![d] = r.err]
           /\ dpc' = [dpc EXCEPT ![d] = IF r.err = "" THEN "done" ELSE "failed"]
           /\ IF r.err # ""
              THEN /\ pc' = "failed"
                   /\ outcome' = [kind |-> r.err, msg |-> <<>>, day |-> d]
                   /\ made' = IF req.front = "form" THEN <<>> ELSE made
                   /\ targets' = targets
              ELSE /\ pc' = pc
                   /\ outcome' = outcome
                   /\ made' = Append(made, [day |-> d, zip |-> r.zip[1]])
                   /\ targets' = Tail(targets)
    /\ UNCHANGED <<doc, parsed, req, call, ret, api>>

\* the loop is over: main prints the ZIP paths, the form returns outputs
Finish ==
    /\ pc = "render"
    /\ targets = <<>>
    /\ pc' = "done"
    /\ UNCHANGED <<doc, days, parsed, dpc, std_ctx, veg_ctx, rows, derr,
                   req, targets, made, outcome, call, ret, api>>

NextRun ==
    \/ ResolveTemplates
    \/ ParseWeek
    \/ Select
    \/ RenderDay
    \/ Finish

SpecRun == InitRun /\ [][NextRun]_vars


\* ---------------------------------------------------------------------------
\* Properties of a run (specification SpecRun)
\* ---------------------------------------------------------------------------

\* the text of the date cell of day column d is in none of the three formats
UnparseableDate(d) ==
    LET ds == strip(cell(doc, 1, d))
    IN  ~strptime_dmY(ds).ok /\ ~strptime_dmy(ds).ok /\ ~strptime_Ymd(ds).ok

\* C6: a day whose date cell cannot be parsed is no failure: to_iso passes
\* the text through, and once the run has rendered that day, the render has
\* completed with its three documents (in the CLI: a ZIP of three members).
\* render_day_to_zip raises ValueError on such a day instead.
C6_UnparseableDateStillRenders ==
    \A d \in DayIds :
        (parsed # <<>> /\ UnparseableDate(d)) =>
            /\ parsed[d].header.date_iso = strip(cell(doc, 1, d))
            /\ dpc[d] # "idle" =>
                  /\ dpc[d] = "done"
                  /\ std_ctx[d] # <<>> /\ veg_ctx[d] # <<>> /\ rows[d] # <<>>
                  /\ req.front = "cli" =>
                        \E k \in DOMAIN made :
                            made[k].day = d /\ Len(made[k].zip.members) = 3

\* the grid lacks the minimum structure: no table, fewer than 7 day columns,
\* or no row in which a cell could be located
LacksStructure(dc) ==
    dc.tables = 0 \/ dc.ncols - 1 < NumDays \/ dc.nrows = 0

\* C7 as stated: on a grid that lacks the minimum structure parse_week
\* reports an error and returns no day records, so the run never gets past
\* parsing.
C7_StructuralErrorReported ==
    LacksStructure(doc) =>
        /\ parsed = <<>>
        /\ pc \notin {"parsed", "select", "render", "done"}

\* every dish title of a day record is empty
EmptyDishes(day) ==
    /\ \A k \in 1..2 : day.source.lunch.starters[k].title.text = <<>>
    /\ day.source.lunch.veg_main.title = <<>>
    /\ day.source.lunch.meat_main.title = <<>>
    /\ day.source.lunch.vegan_main.title = <<>>
    /\ day.source.lunch.optional_sides.title = <<>>
    /\ day.source.lunch.desserts[1].title = <<>>
    /\ day.source.supper.specials.title = <<>>
    /\ day.source.supper.vegan_special.title = <<>>
    /\ day.source.supper.desserts[1].title = <<>>

\* C7 as the code has it: parse_week raises (IndexError) only when the
\* document has no table, and then returns no records.  On a table that
\* lacks day columns or rows it reports nothing: it returns 7 records, and
\* every cell it cannot locate reads as empty, so the records of the missing
\* columns have no date, no theme, the weekday of their position and no
\* dishes.
C7_OnlyMissingTableRaises ==
    /\ (pc = "failed" /\ outcome.kind = "IndexError") => doc.tables = 0
    /\ doc.tables = 0 =>
          /\ parsed = <<>>
          /\ pc \notin {"parsed", "select", "render", "done"}
    /\ parsed # <<>> =>
          /\ Len(parsed) = NumDays
          /\ \A d \in DayIds :
                /\ (d >= doc.ncols \/ doc.nrows = 0) =>
                      /\ parsed[d].header.date_iso = <<>>
                      /\ parsed[d].header.theme = <<>>
                      /\ parsed[d].header.weekday = WeekdayNames[d]
                /\ (d >= doc.ncols \/ doc.nrows <= 3) => EmptyDishes(parsed[d])

\* C7 happens: parse_week has returned for a table with fewer than 7 day
\* columns
C7_Witness ==
    /\ doc.tables = 1
    /\ doc.ncols - 1 < NumDays
    /\ Len(parsed) = NumDays
    /\ pc \in {"parsed", "select"}

\* a single date is requested and the parsed week has no day of that date
DateNotInWeek ==
    /\ req.date # <<>>
    /\ req.front = "cli" => ~req.all_days
    /\ parsed # <<>>
    /\ \A d \in DOMAIN parsed : parsed[d].header.date_iso # req.date

NothingRendered ==
    /\ made = <<>>
    /\ \A d \in DayIds : dpc[d] = "idle" /\ std_ctx[d] = <<>> /\ rows[d] = <<>>

\* C8 as stated: when a single date is requested that no parsed day has, no
\* day is rendered, no ZIP is written, and the run ends with an error that
\* names the date, in both front ends.
C8_DateNotFoundNamesDate ==
    DateNotInWeek =>
        /\ NothingRendered
        /\ pc \notin {"render", "done"}
        /\ pc = "failed" => contains(outcome.msg, req.date)

\* C8 as the code has it: no day is rendered, no ZIP is written and the run
\* ends with an error; the error is "Date <date> not found in weekly grid."
\* when the templates are found.  The form resolves the templates between
\* parsing and the lookup of the date, so with a template missing its error
\* is the template's and does not name the date.
C8_DateNotFoundEndsRun ==
    DateNotInWeek =>
        /\ NothingRendered
        /\ pc \notin {"render", "done"}
        /\ pc = "failed" =>
              /\ outcome.kind = FrontError(req)
              /\ IF req.templates
                 THEN outcome.msg = s_date \o req.date \o s_not_found
                 ELSE /\ req.front = "form"
                      /\ outcome.msg = s_template_not_found
                      /\ ~contains(outcome.msg, req.date)

\* C8 happens: the form has ended with the error for a date that is not in
\* the week
C8_Witness ==
    /\ DateNotInWeek
    /\ req.front = "form"
    /\ req.templates
    /\ pc = "failed"
    /\ contains(outcome.msg, req.date)

\* C9: whenever parse_week returns, it returns exactly 7 day records, the
\* k-th made from the k-th day column (weekday, date and theme of that
\* column; no sorting by date), and in every record lunch.starters,
\* lunch.desserts and supper.desserts have exactly 2 items, also for empty
\* and missing cells.
C9_SevenRecordsInColumnOrder ==
    parsed # <<>> =>
        /\ Len(parsed) = 7
        /\ \A d \in 1..7 :
              /\ d \in DOMAIN parsed
              /\ parsed[d].header.date_iso = to_iso(strip(cell(doc, 1, d)))
              /\ parsed[d].header.theme = strip(cell(doc, 2, d))
              /\ parsed[d].header.weekday =
                    IF strip(cell(doc, 0, d)) # <<>> THEN strip(cell(doc, 0, d))
                    ELSE WeekdayNames[d]
              /\ Len(parsed[d].source.lunch.starters) = 2
              /\ Len(parsed[d].source.lunch.desserts) = 2
              /\ Len(parsed[d].source.supper.desserts) = 2

\* date a is later than date b
LaterDate(a, b) ==
    \/ a.y > b.y
    \/ a.y = b.y /\ a.m > b.m
    \/ a.y = b.y /\ a.m = b.m /\ a.d > b.d

\* C9 happens: parse_week has returned a week whose dates are not in
\* ascending order and in which a day has no cells at all
C9_Witness ==
    /\ Len(parsed) = 7
    /\ \E d, e \in DayIds :
          /\ d < e
          /\ fromisoformat(parsed[d].header.date_iso).ok
          /\ fromisoformat(parsed[e].header.date_iso).ok
          /\ LaterDate(fromisoformat(parsed[d].header.date_iso),
                       fromisoformat(parsed[e].header.date_iso))
    /\ \E d \in DayIds : d >= doc.ncols


\* ---------------------------------------------------------------------------
\* Properties of the allergen rows (specification Spec)
\* ---------------------------------------------------------------------------

\* C11: the row list of a day always has the two headings, and no data row
\* for a meal slot without a title: every data row has a title that is not
\* empty and not just a "(V)" or "(Ve)" tag.  The tag is appended before the
\* emptiness test of add, so empty slots come out as rows "(V)" and "(Ve)".
C11_NoRowForEmptyTitle ==
    \A d \in DayIds :
        dpc[d] = "done" =>
            /\ \E i \in DOMAIN rows[d] :
                  rows[d][i].heading /\ rows[d][i].title = s_heading_standard
            /\ \E i \in DOMAIN rows[d] :
                  rows[d][i].heading /\ rows[d][i].title = s_heading_vegan
            /\ \A i \in DOMAIN rows[d] :
                  ~rows[d][i].heading => strip_suffixes(rows[d][i].title) # <<>>


\* ---------------------------------------------------------------------------
\* Single calls: one function applied to one input drawn from a bounded set
\* (specification SpecFn)
\* ---------------------------------------------------------------------------

\* t_x = "X"
t_x ==
    <<"X">>

\* t_lentil_bake = "Lentil bake"
t_lentil_bake ==
    <<"L","e","n","t","i","l"," ","b","a","k","e">>

\* t_jacket_wedges = "Jacket wedges (Ve)"
t_jacket_wedges ==
    <<"J","a","c","k","e","t"," ","w","e","d","g","e","s"," ","(","V","e",")">>

\* t_chefs_soup = "Chef’s choice soup"
t_chefs_soup ==
    <<"C","h","e","f","rsquo","s"," ","c","h","o","i","c","e"," ","s","o","u","p">>

\* t_chefs_soup_caps = "CHEFS CHOICE SOUP (V)"
t_chefs_soup_caps ==
    <<"C","H","E","F","S"," ","C","H","O","I","C","E"," ","S","O","U","P"," ","(","V",")">>

\* t_curry = "Curry"
t_curry ==
    <<"C","u","r","r","y">>

\* t_soya_curry = "Soya curry"
t_soya_curry ==
    <<"S","o","y","a"," ","c","u","r","r","y">>

\* t_bean_chilli = "3 bean chilli"
t_bean_chilli ==
    <<"3"," ","b","e","a","n"," ","c","h","i","l","l","i">>

\* k_mustard = "Mustard"
k_mustard ==
    <<"M","u","s","t","a","r","d">>

\* k_milk = "Milk"
k_milk ==
    <<"M","i","l","k">>

\* k_celery = "Celery"
k_celery ==
    <<"C","e","l","e","r","y">>

\* k_egg = "Egg"
k_egg ==
    <<"E","g","g">>

\* s_ve_comma = " (Ve), "
s_ve_comma ==
    <<" ","(","V","e",")",","," ">>

\* s_comma = ", "
s_comma ==
    <<","," ">>

\* the grid in its own column order, and its Monday as parse_week reads it
FullGrid == [tables |-> 1, nrows |-> GridRows, ncols |-> GridCols, rot |-> 0]
BaseDay == daily(FullGrid, 0)

\* titles, dishes and allergen token lists of the rows put into a day
RowTitles == {<<>>, t_x, t_lentil_bake, t_jacket_wedges, t_chefs_soup, t_chefs_soup_caps}
Dishes == {<<>>, t_curry, t_soya_curry, t_bean_chilli}
TokenLists == {<<>>, <<k_mustard>>, <<k_mustard, k_milk>>, <<k_celery, k_egg>>}

VeganSlots == {"vegan_main", "vegan_special"}
StandardSlots ==
    {"starter_1", "starter_2", "veg_main", "meat_main", "specials",
     "dessert_1", "supper_dessert_1"}

\* the allergens field of a row: the token list, after "<dish> (Ve), " when
\* a dish title is dumped in front of it
RowAllergens(dish, toks) ==
    (IF dish = <<>> THEN <<>> ELSE dish \o s_ve_comma) \o join(toks, s_comma)

\* the day record with the title and allergens of one slot replaced
with_row(day, slot, title, allergens) ==
    LET item == [title |-> title, allergens |-> allergens]
        full == [title |-> title, description |-> <<>>, allergens |-> allergens]
        st   == [title |-> Plain(title), allergens |-> allergens]
    IN  CASE slot = "starter_1" -> [day EXCEPT !.source.lunch.starters[1] = st]
          [] slot = "starter_2" -> [day EXCEPT !.source.lunch.starters[2] = st]
          [] slot = "veg_main" -> [day EXCEPT !.source.lunch.veg_main = full]
          [] slot = "meat_main" -> [day EXCEPT !.source.lunch.meat_main = full]
          [] slot = "vegan_main" -> [day EXCEPT !.source.lunch.vegan_main = full]
          [] slot = "dessert_1" -> [day EXCEPT !.source.lunch.desserts[1] = item]
          [] slot = "specials" -> [day EXCEPT !.source.supper.specials = full]
          [] slot = "vegan_special" -> [day EXCEPT !.source.supper.vegan_special = full]
          [] slot = "supper_dessert_1" -> [day EXCEPT !.source.supper.desserts[1] = item]

\* the day a "day" call is made on
SynthDay(a) == with_row(BaseDay, a.slot, a.title, RowAllergens(a.dish, a.toks))

\* calls of the per-day sequence on a day with one row replaced
DayCalls ==
    {[fn |-> "day", arg |-> [slot |-> sl, title |-> t, dish |-> di, toks |-> tk]] :
        sl \in VeganSlots, t \in RowTitles, di \in Dishes, tk \in TokenLists}
    \cup
    {[fn |-> "day", arg |-> [slot |-> sl, title |-> t, dish |-> <<>>, toks |-> tk]] :
        sl \in StandardSlots, t \in RowTitles, tk \in TokenLists}

\* build_standard_context, build_vegan_context and the row collection on the
\* day of the call, as render_day_to_zip runs them
ApplyDay ==
    /\ call.fn = "day"
    /\ ret = <<>>
    /\ \E r \in {render_day_to_zip(SynthDay(call.arg))} : ret' = <<r>>
    /\ UNCHANGED <<doc, days, parsed, dpc, std_ctx, veg_ctx, rows, derr,
                   req, pc, targets, made, outcome, call, api>>

\* the result of a "day" call that has been made
DayDone == call.fn = "day" /\ ret # <<>>

\* the categories of the allergen tokens of the calls
TokenCategory(tok) ==
    CASE tok = k_mustard -> "Mustards"
      [] tok = k_milk -> "Milk"
      [] tok = k_celery -> "Celery"
      [] tok = k_egg -> "Eggs"

\* C12: the vegan section has exactly one row "Jacket potato and toppings
\* (Ve)", ticked Celery, Sulphur, Cereals with Gluten and Mustards, and the
\* other vegan main row has the weekly vegan main's own title (tagged "(Ve)")
\* and the categories of its own allergens without Milk and Eggs, whatever
\* words the title contains.  A weekly main whose title contains "jacket" is
\* turned into a second jacket row.
C12_OneJacketRow ==
    (DayDone /\ ret[1].err = "") =>
        LET rs == ret[1].rows
            a  == call.arg
        IN  /\ Cardinality({i \in DOMAIN rs : rs[i].title = s_jacket_Ve}) = 1
            /\ \A i \in DOMAIN rs :
                  rs[i].title = s_jacket_Ve =>
                      rs[i].cols = {"Celery", "Sulphur", "Cereals with Gluten", "Mustards"}
            /\ (a.slot = "vegan_main" /\ Len(strip_suffixes(a.title)) >= 2) =>
                  \E i \in DOMAIN rs :
                      /\ rs[i].slot = "veg_main_2"
                      /\ rs[i].title = strip_suffixes(a.title) \o s_Ve_suffix
                      /\ rs[i].cols =
                            {TokenCategory(a.toks[k]) : k \in DOMAIN a.toks} \ {"Milk", "Eggs"}

\* the add calls of _collect_allergen_items_for_table in the order the
\* table is meant to have
SlotOrder ==
    <<"standard", "std_starter_1", "std_starter_2", "std_veg_main", "std_meat_main",
      "std_sides", "std_dessert", "std_supper_soup", "std_special", "std_supper_dessert",
      "vegan", "veg_starter", "veg_main_1", "veg_main_2", "veg_sides", "veg_dessert",
      "veg_supper_soup", "veg_special", "veg_supper_dessert">>

SlotRank(slot) == CHOOSE k \in DOMAIN SlotOrder : SlotOrder[k] = slot

\* s ends with w
EndsWith(s, w) == Len(s) >= Len(w) /\ SubSeq(s, Len(s) - Len(w) + 1, Len(s)) = w

\* C13: the rows of a day are in the fixed order: the heading "- Standard -"
\* first, the Standard rows (lunch starters, veg main, meat main, sides,
\* lunch dessert, supper soup (V), supper special, supper dessert), one
\* heading "- Vegan -", the Vegan rows (lunch starter, jacket potato, vegan
\* main, sides, lunch dessert, supper soup (Ve), supper special, supper
\* dessert); dropped rows leave the others in that order; at most 2 headings
\* and 17 data rows.
C13_FixedRowOrder ==
    \A d \in DayIds :
        dpc[d] = "done" =>
            LET rs  == rows[d]
                src == parsed[d].source
                at(slot) == {i \in DOMAIN rs : rs[i].slot = slot}
            IN  /\ rs[1].heading /\ rs[1].title = s_heading_standard
                /\ \A i, j \in DOMAIN rs :
                      i < j => SlotRank(rs[i].slot) < SlotRank(rs[j].slot)
                /\ \A i \in DOMAIN rs :
                      /\ rs[i].heading <=> rs[i].slot \in {"standard", "vegan"}
                      /\ rs[i].slot = "standard" => rs[i].title = s_heading_standard
                      /\ rs[i].slot = "vegan" => rs[i].title = s_heading_vegan
                /\ Cardinality({i \in DOMAIN rs : rs[i].title = s_heading_vegan}) = 1
                /\ Cardinality({i \in DOMAIN rs : rs[i].heading}) <= 2
                /\ Cardinality({i \in DOMAIN rs : ~rs[i].heading}) <= 17
                /\ \A i \in at("std_starter_1") :
                      rs[i].title = strip(src.lunch.starters[1].title.text)
                /\ \A i \in at("std_starter_2") :
                      contains(rs[i].title, strip(src.lunch.starters[2].title.text))
                /\ \A i \in at("std_veg_main") : rs[i].title = strip(src.lunch.veg_main.title)
                /\ \A i \in at("std_meat_main") : rs[i].title = strip(src.lunch.meat_main.title)
                /\ \A i \in at("std_sides") : rs[i].title = strip(src.lunch.optional_sides.title)
                /\ \A i \in at("std_dessert") \cup at("std_supper_dessert") :
                      EndsWith(rs[i].title, tag_V)
                /\ \A i \in at("std_supper_soup") : rs[i].title = s_soup_V
                /\ \A i \in at("std_special") :
                      rs[i].title = strip_suffixes(src.supper.specials.title)
                /\ \A i \in at("veg_main_1") : rs[i].title = s_jacket_Ve
                /\ \A i \in at("veg_starter") \cup at("veg_main_2") \cup at("veg_special") \cup at("veg_dessert")
                             \cup at("veg_supper_dessert") :
                      EndsWith(rs[i].title, tag_Ve)
                /\ \A i \in at("veg_sides") : rs[i].title = strip(src.lunch.optional_sides.title)
                /\ \A i \in at("veg_supper_soup") : rs[i].title = s_soup_Ve

\* C13 happens: rows are collected for a day that has all 19 rows and for a
\* day with dropped rows
C13_Witness ==
    \E d, e \in DayIds :
        /\ dpc[d] = "done" /\ Len(rows[d]) = 19
        /\ dpc[e] = "done" /\ Len(rows[e]) < 19

\* k_milk_caps = "MILK"
k_milk_caps ==
    <<"M","I","L","K">>

\* k_tree_nuts_padded = "  Tree nuts "
k_tree_nuts_padded ==
    <<" "," ","T","r","e","e"," ","n","u","t","s"," ">>

\* k_wheat = "Wheat"
k_wheat ==
    <<"W","h","e","a","t">>

\* k_may_contain = "may contain nuts"
k_may_contain ==
    <<"m","a","y"," ","c","o","n","t","a","i","n"," ","n","u","t","s">>

\* k_blank = " "
k_blank ==
    <<" ">>

\* sep_comma = ","
sep_comma ==
    <<",">>

\* sep_slash = "/"
sep_slash ==
    <<"/">>

\* the longest token list of a "csv" call
MaxTokens == 3

\* the tokens of the "csv" calls: names of the synonym table in several
\* spellings, names that are not in it, a blank item
CsvTokens == {k_mustard, k_milk_caps, k_tree_nuts_padded, k_wheat, k_may_contain, k_blank}
CsvSeparators == {sep_comma, sep_slash, s_comma}

CsvCalls ==
    {[fn |-> "csv", arg |-> [toks |-> tk, sep |-> sp]] :
        tk \in UNION {[1..n -> CsvTokens] : n \in 0..MaxTokens}, sp \in CsvSeparators}

\* _parse_allergen_csv on the joined tokens of the call
ApplyCsv ==
    /\ call.fn = "csv"
    /\ ret = <<>>
    /\ \E r \in {parse_allergen_csv(join(call.arg.toks, call.arg.sep))} : ret' = <<r>>
    /\ UNCHANGED <<doc, days, parsed, dpc, std_ctx, veg_ctx, rows, derr,
                   req, pc, targets, made, outcome, call, api>>

\* the result of a "csv" call that has been made
CsvDone == call.fn = "csv" /\ ret # <<>>

\* the token is a name of the synonym table
KnownToken(tok) == lower(strip(tok)) \in DOMAIN ALLERGEN_NORMALISE

\* the tokens of the list that the synonym table knows, in their order
KnownTokens(toks) == SelectSeq(toks, KnownToken)

\* C14: _parse_allergen_csv of a comma/slash list returns only canonical
\* categories, of which there are 16; a token that is not in the synonym
\* table is dropped and the result is the one the other tokens give; the
\* category set of every row of the allergen table is a subset of the 16.
C14_OnlyCanonicalCategories ==
    /\ Cardinality(Range(CANON_COLS)) = 16
    /\ CsvDone =>
          /\ ret[1] \subseteq Range(CANON_COLS)
          /\ ret[1] = parse_allergen_csv(join(KnownTokens(call.arg.toks), call.arg.sep))
          /\ ret[1] = {ALLERGEN_NORMALISE[lower(strip(call.arg.toks[k]))] :
                          k \in {i \in DOMAIN call.arg.toks : KnownToken(call.arg.toks[i])}}
    /\ (DayDone /\ ret[1].err = "") =>
          \A i \in DOMAIN ret[1].rows : ret[1].rows[i].cols \subseteq Range(CANON_COLS)

\* C14 happens: a list with a known and an unknown token has been parsed
C14_Witness ==
    /\ CsvDone
    /\ \E i, j \in DOMAIN call.arg.toks :
          /\ KnownToken(call.arg.toks[i])
          /\ call.arg.toks[j] \in {k_wheat, k_may_contain}
    /\ ret[1] # {}

\* the tokens of the list that are not Milk or Egg, which the vegan menu and
\* the vegan rows leave out
VeganTokens(toks) == SelectSeq(toks, LAMBDA t : t \notin {k_milk, k_egg})

i_peas ==
    <<"P","e","a","s">>

\* i_peas_caps = "PEAS"
i_peas_caps ==
    <<"P","E","A","S">>

\* i_chips_bullet = "- Chips"
i_chips_bullet ==
    <<"-"," ","C","h","i","p","s">>

\* i_chips = "chips"
i_chips ==
    <<"c","h","i","p","s">>

\* i_beans_period = "Beans."
i_beans_period ==
    <<"B","e","a","n","s",".">>

\* i_dash = "-"
i_dash ==
    <<"-">>

\* i_period = "."
i_period ==
    <<".">>

\* sep_newline = "\n"
sep_newline ==
    <<"\n">>

\* sep_spaces = "  "
sep_spaces ==
    <<" "," ">>

\* the longest item list of a "sides" call
MaxSides == 3

\* the items of the "sides" calls: names, names with a bullet or a period,
\* the same name in another casing, a lone dash, a lone period, nothing
SidesItems ==
    {i_peas, i_peas_caps, i_chips_bullet, i_chips, i_beans_period, i_dash, i_period, <<>>}
SidesSeparators == {sep_comma, sep_slash, sep_newline, s_comma, sep_spaces}

SidesCalls ==
    {[fn |-> "sides", arg |-> [items |-> it, sep |-> sp]] :
        it \in UNION {[1..n -> SidesItems] : n \in 0..MaxSides}, sp \in SidesSeparators}

\* normalise_sides on the joined items of the call
ApplySides ==
    /\ call.fn = "sides"
    /\ ret = <<>>
    /\ \E r \in {normalise_sides(join(call.arg.items, call.arg.sep))} : ret' = <<r>>
    /\ UNCHANGED <<doc, days, parsed, dpc, std_ctx, veg_ctx, rows, derr,
                   req, pc, targets, made, outcome, call, api>>

\* the result of a "sides" call that has been made
SidesDone == call.fn = "sides" /\ ret # <<>>

\* an item without its bullet, dash and period
BareItem(p) == strip(rstrip_chars(strip_chars(p, {" ", "-", "ndash", "bullet"}), {"."}))

\* the list the items should give: the bare items that are not empty, each
\* once (ignoring case) at the place and in the casing of its first occurrence
ExpectedSides(items) ==
    LET bare == [k \in DOMAIN items |-> BareItem(items[k])]
        first(k) == bare[k] # <<>> /\ \A j \in 1..(k - 1) : lower(bare[j]) # lower(bare[k])
        RECURSIVE from(_)
        from(k) == IF k > Len(items) THEN <<>>
                   ELSE (IF first(k) THEN <<bare[k]>> ELSE <<>>) \o from(k + 1)
    IN  from(1)

\* C16: normalise_sides returns a ", "-joined list with no empty item and no
\* two items equal ignoring case, each item in the casing and at the place
\* of its first occurrence; an item made only of bullets, dashes or periods
\* counts as empty and is dropped.
C16_SidesNormalised ==
    SidesDone => ret[1] = join(ExpectedSides(call.arg.items), s_comma)

\* c_fish_pie = "Fish pie"
c_fish_pie ==
    <<"F","i","s","h"," ","p","i","e">>

\* c_with_mash = "with mash"
c_with_mash ==
    <<"w","i","t","h"," ","m","a","s","h">>

\* c_fish = "Fish"
c_fish ==
    <<"F","i","s","h">>

\* sep_cr = "\r"
sep_cr ==
    <<"\r">>

\* comma_before = " ,"
comma_before ==
    <<" ",",">>

\* comma_around = " , "
comma_around ==
    <<" ",","," ">>

\* the cells of the "cell" calls: a title (with or without an allergen word
\* in it, or none), a description or none, a list of allergen words or none,
\* the three put on lines of their own or after long spaces, the list with
\* its commas spaced in several ways and with or without a comma at its end
CellTitles == {<<>>, t_lentil_bake, c_fish_pie}
CellDescriptions == {<<>>, c_with_mash}
CellTails == {<<>>, <<k_milk>>, <<c_fish, k_milk>>, <<k_mustard, k_milk, k_egg>>}
LineSeparators == {sep_newline, sep_cr, sep_spaces}
CommaStyles == {s_comma, sep_comma, comma_before, comma_around}

CellCalls ==
    {[fn |-> "cell",
      arg |-> [title |-> t, desc |-> de, toks |-> tk, sep |-> sp, comma |-> co, last |-> la]] :
        t \in CellTitles, de \in CellDescriptions, tk \in CellTails,
        sp \in LineSeparators, co \in CommaStyles, la \in {<<>>, sep_comma}}

\* the allergen list of the cell as it is written
TailText(a) == IF a.toks = <<>> THEN <<>> ELSE join(a.toks, a.comma) \o a.last

\* the text of the cell
CellText(a) ==
    join(SelectSeq(<<a.title, a.desc, TailText(a)>>, LAMBDA x : x # <<>>), a.sep)

\* parse_title_desc_allergens on the cell of the call
ApplyCell ==
    /\ call.fn = "cell"
    /\ ret = <<>>
    /\ \E r \in {parse_title_desc_allergens(CellText(call.arg))} : ret' = <<r>>
    /\ UNCHANGED <<doc, days, parsed, dpc, std_ctx, veg_ctx, rows, derr,
                   req, pc, targets, made, outcome, call, api>>

\* the result of a "cell" call that has been made
CellDone == call.fn = "cell" /\ ret # <<>>

\* the stripped text of the cell and the place of its allergen-tail match (0: none)
CellRaw(a) == strip(replace_char(CellText(a), "\r", "\n"))
CellMatch(a) == TailSearch(CellRaw(a))

\* title and description of a body: its first non-empty line, and the other
\* non-empty lines joined by single spaces (a run of two or more spaces or
\* tabs breaks a line)
TitleAndDescription(body) ==
    LET lines == NonEmptyLines(LongSpacesToNewline(body))
    IN  [title       |-> IF lines = <<>> THEN <<>> ELSE lines[1],
         description |-> IF Len(lines) > 1 THEN join(Tail(lines), <<" ">>) ELSE <<>>]

\* title and description of the cell are those of the text before the match,
\* or of the whole text when there is no match
BodySplit ==
    LET a    == call.arg
        m    == CellMatch(a)
        body == IF m > 0 THEN Upto(CellRaw(a), m - 1) ELSE CellRaw(a)
    IN  /\ ret[1].title = TitleAndDescription(body).title
        /\ ret[1].description = TitleAndDescription(body).description
        /\ m = 0 => ret[1].allergens = <<>>

\* a cell of three lines: title, description, allergen list
ThreeLineCell ==
    /\ call.arg.title # <<>> /\ call.arg.desc # <<>> /\ call.arg.toks # <<>>
    /\ call.arg.sep \in {sep_newline, sep_cr}

v_beef_stew ==
    <<"B","e","e","f"," ","s","t","e","w">>

\* v_pork_pie = "Pork pie (V)"
v_pork_pie ==
    <<"P","o","r","k"," ","p","i","e"," ","(","V",")">>

\* v_lentil_stew = "Lentil stew (Ve)"
v_lentil_stew ==
    <<"L","e","n","t","i","l"," ","s","t","e","w"," ","(","V","e",")">>

\* v_lentil_stew_lower = "lentil stew (ve)"
v_lentil_stew_lower ==
    <<"l","e","n","t","i","l"," ","s","t","e","w"," ","(","v","e",")">>

\* v_vegan_sausage = "Vegan sausage"
v_vegan_sausage ==
    <<"V","e","g","a","n"," ","s","a","u","s","a","g","e">>

\* v_with_rice = "with rice"
v_with_rice ==
    <<"w","i","t","h"," ","r","i","c","e">>

\* sep_slash_spaced = " / "
sep_slash_spaced ==
    <<" ","/"," ">>

\* sep_semicolon = ";"
sep_semicolon ==
    <<";">>

\* sep_bar = "|"
sep_bar ==
    <<"|">>

\* sep_or = " or "
sep_or ==
    <<" ","o","r"," ">>

\* tag_V_spaced = " (V)"
tag_V_spaced ==
    <<" ","(","V",")">>

\* the longest list of variants of a "variant" call
MaxVariants == 3

\* the variants of the "variant" calls: dishes without a tag, with "(V)",
\* with "(Ve)" in either casing, with the word "vegan"; their separators; the
\* descriptions
Variants == {v_beef_stew, v_pork_pie, v_lentil_stew, v_lentil_stew_lower, v_vegan_sausage}
VariantSeparators == {sep_slash_spaced, sep_newline, sep_semicolon, sep_bar, sep_or}
VariantDescriptions == {<<>>, v_with_rice}

VariantCalls ==
    {[fn |-> "variant", arg |-> [segs |-> sg, sep |-> sp, desc |-> de]] :
        sg \in UNION {[1..n -> Variants] : n \in 0..MaxVariants},
        sp \in VariantSeparators, de \in VariantDescriptions}

\* pick_vegan_variant on the title made of the variants of the call, and the
\* description
ApplyVariant ==
    /\ call.fn = "variant"
    /\ ret = <<>>
    /\ \E r \in {pick_vegan_variant(join(call.arg.segs, call.arg.sep), call.arg.desc)} :
           ret' = <<r>>
    /\ UNCHANGED <<doc, days, parsed, dpc, std_ctx, veg_ctx, rows, derr,
                   req, pc, targets, made, outcome, call, api>>

\* the result of a "variant" call that has been made
VariantDone == call.fn = "variant" /\ ret # <<>>

\* the segments of title plus description: the variants, the description
\* being the end of the last one
Segments(a) ==
    IF a.segs = <<>> THEN <<strip(a.desc)>>
    ELSE [k \in DOMAIN a.segs |->
             IF k = Len(a.segs) THEN strip(a.segs[k] \o <<" ">> \o a.desc) ELSE a.segs[k]]

\* the text without the tag "(V)" or "(Ve)" at its end
Untagged(s) ==
    IF EndsWith(s, s_Ve_suffix) THEN Upto(s, Len(s) - Len(s_Ve_suffix))
    ELSE IF EndsWith(s, tag_V_spaced) THEN Upto(s, Len(s) - Len(tag_V_spaced))
    ELSE IF s \in {tag_Ve, tag_V} THEN <<>>
    ELSE s

\* the text with one tag "(Ve)" at its end
TaggedVe(s) == IF Untagged(s) = <<>> THEN tag_Ve ELSE Untagged(s) \o s_Ve_suffix

\* the segment contains "(ve)" or "vegan", in any casing
Qualifies(p) == contains(lower(p), w_ve_tag) \/ contains(lower(p), w_vegan)

\* C18: pick_vegan_variant splits title plus description on "/", newline,
\* ";", "|" and the word "or" and returns the first segment, in text order,
\* that contains "(ve)" or "vegan" in any casing, ending with one tag "(Ve)";
\* when no segment does, it returns the title with its tag replaced by
\* "(Ve)".  The result always ends with "(Ve)".
C18_FirstVeganVariant ==
    VariantDone =>
        LET a     == call.arg
            segs  == Segments(a)
            title == join(a.segs, a.sep)
            hits  == {k \in DOMAIN segs : Qualifies(segs[k])}
        IN  /\ hits # {} => ret[1] = TaggedVe(segs[Min(hits)])
            /\ hits = {} => ret[1] = TaggedVe(strip(title))
            /\ EndsWith(ret[1], tag_Ve)
            /\ ~EndsWith(Untagged(ret[1]), tag_Ve)
            /\ ~EndsWith(Untagged(ret[1]), tag_V)

\* C18 happens: the first variant does not look vegan and two later ones do
C18_Witness ==
    /\ VariantDone
    /\ Len(call.arg.segs) = 3
    /\ ~Qualifies(call.arg.segs[1])
    /\ Qualifies(call.arg.segs[2])
    /\ Qualifies(Segments(call.arg)[3])
    /\ call.arg.segs[2] # call.arg.segs[3]
    /\ ret[1] = TaggedVe(call.arg.segs[2])

\* the item of the vegan context that a call on a vegan slot is about
VeganItem ==
    IF call.arg.slot = "vegan_main" THEN ret[1].veg[1].lunch.mains[2]
    ELSE ret[1].veg[1].supper.specials

\* a call on a vegan slot whose row has a title of 2 characters or more
\* after suffix stripping has been made
LongTitleDone ==
    /\ DayDone /\ ret[1].err = ""
    /\ call.arg.slot \in VeganSlots
    /\ Len(strip_suffixes(call.arg.title)) >= 2

\* the allergens field of the row of the call
AllergensField == RowAllergens(call.arg.dish, call.arg.toks)

\* C19: when the title of the vegan main (or supper special) row has 2
\* characters or more after suffix stripping, the title shown is the row's
\* own title and the allergens string handed to the Milk/Egg scrub is the
\* row's allergens field unchanged, even if it contains a "(ve)" marker.
C19_LongTitleLeavesAllergens ==
    LongTitleDone =>
        /\ VeganItem.title = strip_suffixes(call.arg.title) \o s_Ve_suffix
        /\ VeganItem.allergens = remove_tokens_from_csv(AllergensField)

\* C19 as the code has it: the title shown is the row's own title, and the
\* allergens string handed to the scrub is the row's allergens field without
\* its "<letter> ... (ve)" phrases when the field has a "(ve" marker, the
\* field unchanged when it has none.
C19_LongTitleKeepsTitle ==
    LongTitleDone =>
        /\ VeganItem.title = strip_suffixes(call.arg.title) \o s_Ve_suffix
        /\ contains(lower(AllergensField), w_ve_open) =>
              /\ VeganItem.allergens =
                    remove_tokens_from_csv(strip(RemoveVeTitles(AllergensField)))
              /\ call.arg.dish \in {t_curry, t_soya_curry} =>
                    VeganItem.allergens = join(VeganTokens(call.arg.toks), s_comma)
        /\ ~contains(lower(AllergensField), w_ve_open) =>
              VeganItem.allergens = remove_tokens_from_csv(AllergensField)

\* C19 happens: a row with a long title and a "(Ve)" dish in front of its
\* allergen tokens has been put in the vegan context
C19_Witness ==
    /\ LongTitleDone
    /\ call.arg.dish = t_soya_curry
    /\ call.arg.toks = <<k_mustard, k_milk>>
    /\ VeganItem.allergens = k_mustard

\* the Standard context of a call on a Standard slot that has been made
\* (it is built before anything in the call can raise)
StandardDone == DayDone /\ call.arg.slot \in StandardSlots

\* the titles of the Standard context that are plain strings: veg main, meat
\* main, supper special, desserts
PlainTitles(std) ==
    {std.lunch.mains[1].title, std.lunch.mains[2].title, std.supper.specials.title,
     std.lunch.desserts[1].title, std.lunch.desserts[2].title,
     std.supper.desserts[1].title, std.supper.desserts[2].title}

\* C20: in the Standard context every item whose title contains "chef",
\* "choice" and "soup" is marked highlighted, whichever slot it is in: lunch
\* starters, veg main, meat main, supper starter, supper special, desserts.
\* (A title that is a plain string is not marked.)
C20_HighlightedInEverySlot ==
    StandardDone =>
        LET std == ret[1].std[1]
        IN  /\ \A k \in 1..2 :
                  is_chefs_choice_soup(std.lunch.starters[k].title.text) =>
                      std.lunch.starters[k].title.rich
            /\ is_chefs_choice_soup(std.supper.starter.title.text) =>
                  std.supper.starter.title.rich
            /\ \A t \in PlainTitles(std) : ~is_chefs_choice_soup(t)

\* C20 as the code has it: the two lunch starters are marked exactly when
\* their title names the soup, the supper starter is always the marked
\* "Chef's choice soup (V)", and the titles of veg main, meat main, supper
\* special and desserts are plain strings whatever they contain.
C20_OnlyStartersHighlighted ==
    StandardDone =>
        LET std == ret[1].std[1]
            src == SynthDay(call.arg).source
        IN  /\ \A k \in 1..2 :
                  /\ std.lunch.starters[k].title.text = src.lunch.starters[k].title.text
                  /\ std.lunch.starters[k].title.rich <=>
                        is_chefs_choice_soup(src.lunch.starters[k].title.text)
            /\ std.supper.starter.title = [rich |-> TRUE, text |-> s_soup_V]
            /\ std.lunch.mains[1].title = strip_suffixes(src.lunch.veg_main.title) \o s_V_suffix
            /\ std.lunch.mains[2].title = strip_suffixes(src.lunch.meat_main.title)
            /\ std.supper.specials.title = strip_suffixes(src.supper.specials.title)
            /\ std.lunch.desserts[1].title =
                  sentence_case(strip_suffixes(src.lunch.desserts[1].title)) \o s_V_suffix
            /\ std.lunch.desserts[2].title = src.lunch.desserts[2].title
            /\ std.supper.desserts[1].title =
                  sentence_case(strip_suffixes(src.supper.desserts[1].title)) \o s_V_suffix
            /\ std.supper.desserts[2].title = src.supper.desserts[2].title

\* C20 happens: a Standard context has been built for a day whose veg main
\* is titled "Chef's choice soup"
C20_Witness ==
    /\ StandardDone
    /\ call.arg.slot = "veg_main"
    /\ call.arg.title = t_chefs_soup
    /\ is_chefs_choice_soup(ret[1].std[1].lunch.mains[1].title)

\* the text of each label of CANON_COLS
CanonText ==
       "Celery" :> <<"C","e","l","e","r","y">>
    @@ "Cereals with Gluten" :> <<"C","e","r","e","a","l","s"," ","w","i","t","h"," ","G","l","u","t","e","n">>
    @@ "Crustaceans" :> <<"C","r","u","s","t","a","c","e","a","n","s">>
    @@ "Eggs" :> <<"E","g","g","s">>
    @@ "Fish" :> <<"F","i","s","h">>
    @@ "Lupin" :> <<"L","u","p","i","n">>
    @@ "Milk" :> <<"M","i","l","k">>
    @@ "Molluscs" :> <<"M","o","l","l","u","s","c","s">>
    @@ "Mustards" :> <<"M","u","s","t","a","r","d","s">>
    @@ "Peanuts" :> <<"P","e","a","n","u","t","s">>
    @@ "Nuts from Trees" :> <<"N","u","t","s"," ","f","r","o","m"," ","T","r","e","e","s">>
    @@ "Sesame" :> <<"S","e","s","a","m","e">>
    @@ "Soybeans" :> <<"S","o","y","b","e","a","n","s">>
    @@ "Sulphur" :> <<"S","u","l","p","h","u","r">>
    @@ "Alcohol" :> <<"A","l","c","o","h","o","l">>
    @@ "Pork" :> <<"P","o","r","k">>

\* the casings a label is written in
Casings == {"as written", "lower", "upper"}

\* the text in the casing
InCasing(s, casing) ==
    CASE casing = "lower" -> lower(s)
      [] casing = "upper" -> [i \in 1..Len(s) |-> upper_char(s[i])]
      [] OTHER -> s

LabelCalls ==
    {[fn |-> "label", arg |-> [label |-> CANON_COLS[k], casing |-> c]] :
        k \in DOMAIN CANON_COLS, c \in Casings}

\* _parse_allergen_csv on a label of CANON_COLS
ApplyLabel ==
    /\ call.fn = "label"
    /\ ret = <<>>
    /\ \E r \in {parse_allergen_csv(InCasing(CanonText[call.arg.label], call.arg.casing))} :
           ret' = <<r>>
    /\ UNCHANGED <<doc, days, parsed, dpc, std_ctx, veg_ctx, rows, derr,
                   req, pc, targets, made, outcome, call, api>>

\* the result of a "label" call that has been made
LabelDone == call.fn = "label" /\ ret # <<>>

\* C21: for every label L of CANON_COLS, in any casing,
\* _parse_allergen_csv(L) = {L}: resolving a canonical label again never
\* loses it.
C21_CanonicalLabelsFixed ==
    LabelDone => ret[1] = {call.arg.label}

\* the cells of the "vocab" calls: title, description and, on the last line,
\* an allergen list that starts with a token of the synonym table, alone or
\* followed by ", Milk"
VocabCalls ==
    {[fn |-> "vocab", arg |-> [tok |-> t, casing |-> c, more |-> m]] :
        t \in DOMAIN ALLERGEN_NORMALISE, c \in {"as written", "upper"},
        m \in {<<>>, <<k_milk>>}}

\* the allergen list of the cell
VocabList(a) == join(<<InCasing(a.tok, a.casing)>> \o a.more, s_comma)

\* the text of the cell
VocabCell(a) == join(<<t_lentil_bake, c_with_mash, VocabList(a)>>, sep_newline)

\* parse_title_desc_allergens on the cell of the call
ApplyVocab ==
    /\ call.fn = "vocab"
    /\ ret = <<>>
    /\ \E r \in {parse_title_desc_allergens(VocabCell(call.arg))} : ret' = <<r>>
    /\ UNCHANGED <<doc, days, parsed, dpc, std_ctx, veg_ctx, rows, derr,
                   req, pc, targets, made, outcome, call, api>>

\* the result of a "vocab" call that has been made
VocabDone == call.fn = "vocab" /\ ret # <<>>

\* C22: for every token t of the synonym table, a cell whose last line is an
\* allergen list starting with t is parsed with that list in the allergens
\* field, not in title or description, and the category of t is among the
\* categories of the field.
C22_VocabularyReachesAllergens ==
    VocabDone =>
        /\ ret[1].allergens = VocabList(call.arg)
        /\ ret[1].title = t_lentil_bake
        /\ ret[1].description = c_with_mash
        /\ ALLERGEN_NORMALISE[call.arg.tok] \in parse_allergen_csv(ret[1].allergens)

\* C23: for every day, the categories of the row "Chef's choice soup (V)"
\* are the canonicalised allergens of the Standard context's supper starter
\* (copied from lunch starter #1), and the categories of the row "Chef's
\* choice soup (Ve)" are the canonicalised allergens of the Vegan context's
\* supper starter, also when the supper-starter row of the week and lunch
\* starter #1 have different allergens.
C23_SoupRowsAgreeWithMenus ==
    \A d \in DayIds :
        dpc[d] = "done" =>
            \A i \in DOMAIN rows[d] :
                /\ rows[d][i].slot = "std_supper_soup" =>
                      rows[d][i].cols =
                          parse_allergen_csv(std_ctx[d][1].supper.starter.allergens)
                /\ rows[d][i].slot = "veg_supper_soup" =>
                      rows[d][i].cols =
                          parse_allergen_csv(veg_ctx[d][1].supper.starter.allergens)

\* ---------------------------------------------------------------------------
\* The /generate endpoint (api/main.py)
\* ---------------------------------------------------------------------------

\* the most requests the endpoint handles
MaxRequests == 2

RequestIds == 1..MaxRequests

\* What decides the path of a request: which templates were uploaded, the
\* statement of the try block that raises (if any), the return code of the
\* generator script and the number of ZIPs it left in the temporary directory.
RequestInputs ==
    [templates : {"none", "some", "all"},
     raises    : {"none", "save_weekly", "save_templates", "run", "bundle"},
     rc        : {0, 1},
     zips      : 0..2]

\* a request that has not arrived
NoApiRequest == [pc |-> "idle", tmpdir |-> FALSE, tasks |-> <<>>, status |-> 0, path |-> ""]

\* the function generate on one request, from tempfile.mkdtemp to its return:
\* the status of the response it returns, the background tasks it has added,
\* and the path it took.  The temporary directory exists when it returns.
generate(inp) ==
    LET answer(path, status, tasks) ==
            [pc |-> "returned", tmpdir |-> TRUE, tasks |-> tasks,
             status |-> status, path |-> path]
        exception == answer("exception", 500, <<"_cleanup">>)
    IN  IF inp.raises = "save_weekly" THEN exception
        ELSE IF inp.templates = "some" THEN answer("partial_templates", 400, <<>>)
        ELSE IF inp.templates = "all" /\ inp.raises = "save_templates" THEN exception
        ELSE IF inp.raises = "run" THEN exception
        ELSE IF inp.rc # 0 THEN answer("generation_failed", 500, <<>>)
        ELSE IF inp.zips = 0 THEN answer("no_zip", 400, <<>>)
        ELSE IF inp.zips > 1
             THEN IF inp.raises = "bundle" THEN exception
                  ELSE answer("bundle", 200, <<"_cleanup">>)
        ELSE answer("one_zip", 200, <<"_cleanup">>)

\* a request arrives and generate handles it (the function has no await: it
\* runs from its first statement to its return without another request's
\* handler in between)
Generate(r) ==
    /\ api[r].pc = "idle"
    /\ \E inp \in RequestInputs : api' = [api EXCEPT ![r] = generate(inp)]
    /\ UNCHANGED <<doc, days, parsed, dpc, std_ctx, veg_ctx, rows, derr,
                   req, pc, targets, made, outcome, call, ret>>

\* the response of the request is sent
SendResponse(r) ==
    /\ api[r].pc = "returned"
    /\ api' = [api EXCEPT ![r].pc = "sent"]
    /\ UNCHANGED <<doc, days, parsed, dpc, std_ctx, veg_ctx, rows, derr,
                   req, pc, targets, made, outcome, call, ret>>

\* after the response, the background tasks added for the request are run:
\* _cleanup removes the temporary directory
RunBackground(r) ==
    /\ api[r].pc = "sent"
    /\ api' = [api EXCEPT ![r].pc = "done",
                          ![r].tmpdir = IF "_cleanup" \in Range(api[r].tasks)
                                        THEN FALSE ELSE @]
    /\ UNCHANGED <<doc, days, parsed, dpc, std_ctx, veg_ctx, rows, derr,
                   req, pc, targets, made, outcome, call, ret>>

InitApi ==
    /\ api = [r \in RequestIds |-> NoApiRequest]
    /\ call = NoCall
    /\ ret = <<>>
    /\ doc = FullGrid
    /\ days = <<>>
    /\ parsed = <<>>
    /\ dpc = [d \in DayIds |-> "idle"]
    /\ std_ctx = [d \in DayIds |-> <<>>]
    /\ veg_ctx = [d \in DayIds |-> <<>>]
    /\ rows = [d \in DayIds |-> <<>>]
    /\ derr = [d \in DayIds |-> ""]
    /\ req = NoRequest
    /\ pc = "api"
    /\ targets = <<>>
    /\ made = <<>>
    /\ outcome = NoOutcome

NextApi ==
    \E r \in RequestIds :
        \/ Generate(r)
        \/ SendResponse(r)
        \/ RunBackground(r)

\* every response that generate returns is sent, and the background tasks of
\* a sent response are run
SpecApi ==
    /\ InitApi
    /\ [][NextApi]_vars
    /\ \A r \in RequestIds : WF_vars(SendResponse(r)) /\ WF_vars(RunBackground(r))

\* C24: for every request handled by /generate, the temporary directory made
\* for it is eventually removed after the response, on every response path:
\* one ZIP, a bundle, 400 for partial templates, 500 for a failed generator
\* run, 400 for no ZIP, 500 for an exception.
C24_TmpdirEventuallyRemoved ==
    \A r \in RequestIds :
        (api[r].pc = "returned") ~> (api[r].pc = "done" /\ ~api[r].tmpdir)

\* ---------------------------------------------------------------------------
\* The specification of single calls
\* ---------------------------------------------------------------------------

Calls == DayCalls \cup CsvCalls \cup SidesCalls \cup CellCalls \cup VariantCalls \cup LabelCalls \cup VocabCalls

InitFn ==
    /\ call \in Calls
    /\ ret = <<>>
    /\ api = <<>>
    /\ doc = FullGrid
    /\ days = <<>>
    /\ parsed = <<>>
    /\ dpc = [d \in DayIds |-> "idle"]
    /\ std_ctx = [d \in DayIds |-> <<>>]
    /\ veg_ctx = [d \in DayIds |-> <<>>]
    /\ rows = [d \in DayIds |-> <<>>]
    /\ derr = [d \in DayIds |-> ""]
    /\ req = NoRequest
    /\ pc = "call"
    /\ targets = <<>>
    /\ made = <<>>
    /\ outcome = NoOutcome

NextFn ==
    \/ ApplyDay
    \/ ApplyCsv
    \/ ApplySides
    \/ ApplyCell
    \/ ApplyVariant
    \/ ApplyLabel
    \/ ApplyVocab

SpecFn == InitFn /\ [][NextFn]_vars

====
